---- MODULE Spec2Model ----
(***************************************************************************)
(* versfm: the dual-pane orchestrator (view/screens/dual_pane_list.rs),    *)
(* the list components behind its two panes (view/components.rs,           *)
(* view/components/s3_list.rs, view/components/filesystem_list.rs) and the *)
(* per-file transfer tasks it spawns.                                      *)
(*                                                                         *)
(* A pane is a list of entries (items), a cursor (state, the ListState),   *)
(* a current directory (curr_path) and the backing store it lists.  The    *)
(* UI loop handles one key event at a time; every tokio::spawn'ed task     *)
(* advances from one .await to the next, interleaved with the UI loop and  *)
(* with the other tasks.                                                   *)
(***************************************************************************)
EXTENDS Integers, Sequences, FiniteSets, TLC

\* ------------------------------------------------------------------ bounds
\* Key events handled in one run.
MaxKeys == 6
\* Transfer tasks spawned in one run.
MaxTasks == 3
\* Key events handled in one run of a single batch of moves (SpecBatch).
BatchKeys == 7
\* Transfer tasks spawned in one run of SpecBatch.
BatchTasks == 3
\* Number of backend calls that fail although the addressed object is there.
MaxFaults == 1
\* Key events handled in one run of SpecNav.
MaxNavKeys == 8
\* Transfer tasks spawned in one run of SpecNav.
MaxNavTasks == 2
\* Operations applied to a list component in one run of SpecList.
MaxListOps == 4
\* Cursor moves and prefix changes of one run of SpecPrefix.
MaxPrefixOps == 5
\* Calls of the S3Provider in one run of SpecBucket.
MaxBucketOps == 3
\* Key events handled in one run of SpecBackends.
MaxBackendKeys == 6
\* Transfer tasks spawned in one run of SpecBackends.
MaxBackendTasks == 2
\* Key events handled in one run of SpecPatch.
MaxPatchKeys == 7
\* Transfer tasks spawned in one run of SpecPatch.
MaxPatchTasks == 2

\* The keys and tasks of a run in which the progress of the tasks is checked.
LiveKeys == 7

LiveTasks == 2

\* Operations applied in one run of SpecFs.
MaxFsOps == 4

\* Put patches and refreshes in one run of SpecAdd.
MaxAddTasks == 2

MaxAddKeys == 2

\* Key events handled in one run of SpecFocus.
MaxFocusKeys == 7

\* Chunks of a stream in one run of SpecSink.
MaxChunks == 3

\* The capacity of the buffer of a BufWriter, in bytes (8192 in std, scaled down).
Capacity == 2

\* ------------------------------------------------------------------ universe
Panes == {"LeftList", "RightList"}

Other(p) == IF p = "LeftList" THEN "RightList" ELSE "LeftList"

\* File names that occur in a listing, in listing order.
NameOrder == <<"f1", "f2", "f3">>

FileNames == {NameOrder[i] : i \in 1..Len(NameOrder)}

\* Directory names that occur in a listing: they end in the delimiter.
DirOrder == <<"d/">>

\* Every name that occurs in a listing, in listing order.
ListingOrder == DirOrder \o NameOrder

\* The directory each pane is opened at.
StartPath == [p \in Panes |-> IF p = "LeftList" THEN "/l" ELSE "/r"]

\* Option<usize> of tui's ListState: None is <<>>, Some(i) is <<i>>, i from 0.
None == <<>>

Some(i) == <<i>>

VARIABLES
    curr_list,   \* DualPaneList.curr_list: the focused pane
    items,       \* items[p]: the entries of pane p, in display order
    state,       \* state[p]: the ListState (cursor) of pane p
    curr_path,   \* curr_path[p]: get_current_path() of pane p
    store,       \* store[p]: the paths that exist in the backend of pane p
    err_stack,   \* DualPaneList.err_stack
    tasks,       \* every task spawned so far, in spawn order, with its position
    faults,      \* backend faults injected so far
    keys,        \* key events handled so far
    owner,       \* owner[m]: the thread that holds Mutex m, or "free"
    threads,     \* threads[th]: the lock steps thread th still has to take
    stream,      \* the chunks a byte stream still has to yield
    file,        \* the bytes a sink has written to its file
    io_result    \* what write_file_from_stream returned, once it has

vars == <<curr_list, items, state, curr_path, store, err_stack, tasks, faults, keys,
          owner, threads, stream, file, io_result>>

\* The mutexes and the byte sink, which the pane-level specifications leave alone.
aux == <<owner, threads, stream, file, io_result>>

\* No thread has taken a lock and no stream has been opened.
Idle ==
    /\ owner = <<>>
    /\ threads = <<>>
    /\ stream = <<>>
    /\ file = <<>>
    /\ io_result = "none"

\* ------------------------------------------------------------------ entries
\* SelectableEntry::new over a FilenameEntry.
NewEntry(file_name, kind) ==
    [file_name |-> file_name, kind |-> kind, state |-> "Unselected"]

\* A select that sets the requested state instead of toggling.
mut_select_sets(e, new) == [e EXCEPT !.state = new]

\* SelectableEntry::select
SelectableEntry_select(e, new) ==
    IF new = "Proccessed"
    THEN [e EXCEPT !.state = new]
    ELSE [e EXCEPT !.state = IF e.state = "Unselected" THEN new ELSE "Unselected"]

\* ListOption::select, the entry of the StatefulList of view/utils.rs, whose State
\* has no Proccessed.
ListOption_select(e, new) ==
    [e EXCEPT !.state = IF e.state = "Unselected" THEN new ELSE "Unselected"]

\* items.iter().find(|v| v.value().name() == file_name): 1-based position of the
\* first entry of that name, 0 when there is none.
IndexOfFilename(its, file_name) ==
    IF \E i \in 1..Len(its) : its[i].file_name = file_name
    THEN CHOOSE i \in 1..Len(its) :
            /\ its[i].file_name = file_name
            /\ \A j \in 1..(i - 1) : its[j].file_name # file_name
    ELSE 0

\* ASelectableFilenameList::set_item_state_by_filename
set_item_state_by_filename(its, file_name, st) ==
    LET i == IndexOfFilename(its, file_name)
    IN  IF i = 0 THEN its ELSE [its EXCEPT ![i] = SelectableEntry_select(its[i], st)]

\* ASelectableFilenameList::get_item_by_filename(..).is_some()
get_item_by_filename(its, file_name) == IndexOfFilename(its, file_name) # 0

\* A removal that takes the entry out and leaves the cursor where it was.
mut_remove_keeps_cursor(its, st, file_name) ==
    LET i == IndexOfFilename(its, file_name)
    IN  [items |-> IF i = 0 THEN its
                   ELSE SubSeq(its, 1, i - 1) \o SubSeq(its, i + 1, Len(its)),
         state |-> st]

\* A removal that finds the entry and leaves the list as it is.
mut_remove_element_kept(its, st, file_name) == [items |-> its, state |-> st]

\* ASelectableFilenameList::remove_element_of_filename: the new items and cursor.
remove_element_of_filename(its, st, file_name) ==
    LET i == IndexOfFilename(its, file_name)
        element_index == i - 1
    IN  IF i = 0
        THEN [items |-> its, state |-> st]
        ELSE [items |-> SubSeq(its, 1, i - 1) \o SubSeq(its, i + 1, Len(its)),
              state |-> IF st = None THEN st
                        ELSE IF element_index < st[1] THEN Some(st[1] - 1)
                        ELSE IF element_index = st[1] THEN None
                        ELSE st]

\* ASelectableFilenameList::add_new_element
add_new_element(its, file_name) ==
    IF get_item_by_filename(its, file_name)
    THEN its
    ELSE Append(its, NewEntry(file_name, "File"))

\* A next that stops at the last entry instead of wrapping around.
mut_next_clamped(its, st) ==
    IF Len(its) > 0
    THEN IF st = None THEN Some(0)
         ELSE IF st[1] >= Len(its) - 1 THEN Some(Len(its) - 1) ELSE Some(st[1] + 1)
    ELSE st

\* StatefulContainer::next: the new cursor.
next(its, st) ==
    IF Len(its) > 0
    THEN IF st = None THEN Some(0)
         ELSE IF st[1] >= Len(its) - 1 THEN Some(0) ELSE Some(st[1] + 1)
    ELSE st

\* StatefulContainer::previous: the new cursor.
previous(its, st) ==
    IF Len(its) > 0
    THEN IF st = None THEN Some(0)
         ELSE IF st[1] = 0 THEN Some(Len(its) - 1) ELSE Some(st[1] - 1)
    ELSE st

\* A select that does not look at the kind of the entry.
mut_select_any_kind(its, st, selection) ==
    IF st = None THEN its
    ELSE LET i == st[1]
         IN  IF Len(its) > i
             THEN [its EXCEPT ![i + 1] = SelectableEntry_select(its[i + 1], selection)]
             ELSE its

\* SelectableContainer::select: the new items.
SelectableContainer_select(its, st, selection) ==
    IF st = None THEN its
    ELSE LET i == st[1]
         IN  IF Len(its) > i /\ its[i + 1].kind = "File"
             THEN [its EXCEPT ![i + 1] = SelectableEntry_select(its[i + 1], selection)]
             ELSE its

\* SelectableContainer::select of S3List and FilesystemList
\* (view/components/s3_list.rs, filesystem_list.rs): the new items.
S3List_select(its, st, selection) ==
    IF st = None THEN its
    ELSE LET i == st[1]
         IN  IF Len(its) > i /\ i > 0 /\ its[i + 1].kind = "File"
             THEN [its EXCEPT ![i + 1] = SelectableEntry_select(its[i + 1], selection)]
             ELSE its

\* S3List::add_new_element, FilesystemList::add_new_element: the new items.
S3List_add_new_element(its, file_name) == Append(its, NewEntry(file_name, "File"))

\* A filter that takes every entry that is not Unselected.
mut_get_selected_any(its, selection) ==
    LET sel == SelectSeq(its, LAMBDA e : e.state # "Unselected")
    IN  [i \in 1..Len(sel) |-> sel[i].file_name]

\* SelectableContainer::get_selected: the names, in list order.
get_selected(its, selection) ==
    LET sel == SelectSeq(its, LAMBDA e : e.state = selection)
    IN  [i \in 1..Len(sel) |-> sel[i].file_name]

\* FileCRUD::start_processing_item
start_processing_item(its, file_name) ==
    set_item_state_by_filename(its, file_name, "Proccessed")

\* FileCRUD::stop_processing_item
stop_processing_item(its, file_name) ==
    set_item_state_by_filename(its, file_name, "Unselected")

\* ------------------------------------------------------------------ paths
\* utils::append_path_to_dir
append_path_to_dir(dir, file_name) == <<dir, file_name>>

\* path.rsplitn(2, "/").last()
path_dir(path) == path[1]

\* get_filename_from_path
get_filename_from_path(path) == path[2]

\* name.chars().last(): the last character of a non-empty string.
LastChar(s) == SubSeq(s, Len(s), Len(s))

\* selected.pop(): the string without its last character.
Pop(s) == SubSeq(s, 1, Len(s) - 1)

\* current.rmatch_indices('/'): the positions of the delimiter, from 1.
SlashIndices(s) == {i \in 1..Len(s) : SubSeq(s, i, i) = "/"}

\* A move_into_selected_dir that appends the name under the cursor whatever its
\* last character.
mut_move_into_any_entry(prefix, its, st) ==
    IF st = None THEN prefix ELSE prefix \o Pop(its[st[1] + 1].file_name)

\* Navigatable::move_into_selected_dir, the new prefix: the name under the cursor
\* is appended, without its delimiter, when it ends in the delimiter.
move_into_selected_dir(prefix, its, st) ==
    IF st = None THEN prefix
    ELSE LET selected == its[st[1] + 1].file_name
         IN  IF LastChar(selected) = "/" THEN prefix \o Pop(selected) ELSE prefix

\* get_entry_name(i) panics when the cursor is past the last entry.
move_into_panics(its, st) == st # None /\ st[1] >= Len(its)

\* Navigatable::move_out_of_selected_dir, the new prefix: the current one cut after
\* the last delimiter but one, the root when there is none.
move_out_of_selected_dir(prefix) ==
    IF prefix = "" THEN prefix
    ELSE LET idx == SlashIndices(prefix)
         IN  IF Cardinality(idx) >= 2
             THEN LET last == CHOOSE i \in idx : \A j \in idx : j <= i
                      i == CHOOSE i \in idx \ {last} : \A j \in idx \ {last} : j <= i
                  IN  SubSeq(prefix, 1, i)
             ELSE ""

\* S3List::move_into_selected_dir of view/components/s3list.rs, the new prefix: the
\* name under the cursor is appended, delimiter included, when it ends in the
\* delimiter.
s3list_move_into_selected_dir(prefix, its, st) ==
    IF st = None THEN prefix
    ELSE LET selected == its[st[1] + 1].file_name
         IN  IF LastChar(selected) = "/" THEN prefix \o selected ELSE prefix

\* A move_out_of_selected_dir that cuts after the last delimiter instead of the
\* last but one.
mut_s3list_move_out_last(prefix) ==
    IF prefix = "" THEN prefix
    ELSE LET idx == SlashIndices(prefix)
         IN  IF idx = {} THEN ""
             ELSE SubSeq(prefix, 1, CHOOSE i \in idx : \A j \in idx : j <= i)

\* S3List::move_out_of_selected_dir of view/components/s3list.rs, the new prefix.
s3list_move_out_of_selected_dir(prefix) ==
    IF prefix = "" THEN prefix
    ELSE LET idx == SlashIndices(prefix)
             nth0 == CHOOSE i \in idx : \A j \in idx : j <= i
             rest == idx \ {nth0}
         IN  IF rest = {} THEN ""
             ELSE SubSeq(prefix, 1, CHOOSE i \in rest : \A j \in rest : j <= i)

\* ------------------------------------------------------------------ backend
\* The kind list_objects gives an object: a Directory when its name ends in '/'.
KindOf(file_name) == IF LastChar(file_name) = "/" THEN "Directory" ELSE "File"

\* The listing of directory dir of a store: its directories and files, in listing
\* order.
list_objects(st, dir) ==
    LET names == SelectSeq(ListingOrder, LAMBDA n : append_path_to_dir(dir, n) \in st)
    IN  [i \in 1..Len(names) |-> NewEntry(names[i], KindOf(names[i]))]

\* ComponentError::new
ComponentError(p, op, what) == [component |-> p, op |-> op, file |-> what]

\* The error of a failed refresh: handle_err(e, Some(&self.get_prefix())), the
\* directory taking the place of the file.
ListError(p, dir) == ComponentError(p, "list", append_path_to_dir(dir, ""))

\* FileCRUD::refresh of pane p when the listing succeeds: the new items.
refresh(p) == list_objects(store[p], curr_path[p])

\* ------------------------------------------------------------------ faults
\* A backend call that fails although the object it addresses is there.
Fault(ok, present) == ~ok /\ present

\* The fault budget after a call, and whether the call's outcome is allowed.
Charge(ok, present) == IF Fault(ok, present) THEN faults + 1 ELSE faults

Allowed(ok, present) == Fault(ok, present) => faults < MaxFaults

\* ------------------------------------------------------------------ Init
\* The stores the two backends may hold when the program starts.
StoreOf(names) == [p \in Panes |-> {append_path_to_dir(StartPath[p], n) : n \in names[p]}]

InitStores ==
    { StoreOf([p \in Panes |-> IF p = "LeftList" THEN {"f1", "f2"} ELSE r]) :
        r \in {{}, {"f2"}} }

\* DualPaneList::new: both panes are refreshed once; a failed refresh leaves the
\* pane empty and its error on the stack.
Init ==
    /\ curr_list = "LeftList"
    /\ curr_path = StartPath
    /\ store \in InitStores
    /\ state = [p \in Panes |-> None]
    /\ tasks = <<>>
    /\ keys = 0
    /\ Idle
    /\ \E okL, okR \in BOOLEAN :
        /\ faults = (IF okL THEN 0 ELSE 1) + (IF okR THEN 0 ELSE 1)
        /\ faults <= MaxFaults
        /\ items = [p \in Panes |->
                      IF (p = "LeftList" /\ okL) \/ (p = "RightList" /\ okR)
                      THEN list_objects(store[p], curr_path[p]) ELSE <<>>]
        /\ err_stack =
              (IF okL THEN <<>>
               ELSE <<ListError("LeftList", StartPath["LeftList"])>>)
              \o (IF okR THEN <<>>
                  ELSE <<ListError("RightList", StartPath["RightList"])>>)

\* ------------------------------------------------------------------ spawning
\* The task spawn_move_task / spawn_copy_task / spawn_delete_task creates: the two
\* paths are computed when the task is spawned.
NewTask(op, from, to, file_name) ==
    [op |-> op, from |-> from, to |-> to, file_name |-> file_name,
     from_path |-> append_path_to_dir(curr_path[from], file_name),
     to_path |-> append_path_to_dir(curr_path[to], file_name),
     pc |-> IF op = "delete" THEN "start" ELSE "open",
     get |-> "none", put |-> "none", del |-> "none"]

\* The names a batch takes from a pane: get_selected of that state.
SpawnFor(op, from, to, selection) ==
    LET sel == get_selected(items[from], selection)
    IN  [i \in 1..Len(sel) |-> NewTask(op, from, to, sel[i])]

\* DualPaneList::move_from_to
move_from_to(from, to) == SpawnFor("move", from, to, "ToMove")

\* DualPaneList::copy_from_to
copy_from_to(from, to) == SpawnFor("copy", from, to, "ToCopy")

\* DualPaneList::delete_from
delete_from(from) == SpawnFor("delete", from, from, "ToDelete")

\* DualPaneList::move_items
move_items == move_from_to("RightList", "LeftList") \o move_from_to("LeftList", "RightList")

\* DualPaneList::copy_items
copy_items == copy_from_to("RightList", "LeftList") \o copy_from_to("LeftList", "RightList")

\* DualPaneList::delete_items
delete_items == delete_from("LeftList") \o delete_from("RightList")

\* An emptiness test that always answers true.
mut_err_stack_empty_always == TRUE

\* DualPaneList::err_stack_empty
err_stack_empty == err_stack = <<>>

\* ------------------------------------------------------------------ key events
\* handle_event, KeyCode::Enter
HandleEnter ==
    /\ IF err_stack_empty
       THEN /\ tasks' = tasks \o move_items \o copy_items \o delete_items
            /\ UNCHANGED err_stack
       ELSE /\ err_stack' = <<>>
            /\ UNCHANGED tasks
    /\ UNCHANGED <<curr_list, items, state, curr_path, store, faults>>

\* A cursor key that acts on the pane without the focus.
mut_HandleDown_other ==
    /\ state' = [state EXCEPT ![Other(curr_list)] = next(items[Other(curr_list)], @)]
    /\ UNCHANGED <<curr_list, items, curr_path, store, err_stack, tasks, faults>>

\* handle_event, KeyCode::Down | 'j'
HandleDown ==
    /\ state' = [state EXCEPT ![curr_list] = next(items[curr_list], @)]
    /\ UNCHANGED <<curr_list, items, curr_path, store, err_stack, tasks, faults>>

\* handle_event, KeyCode::Up | 'k'
HandleUp ==
    /\ state' = [state EXCEPT ![curr_list] = previous(items[curr_list], @)]
    /\ UNCHANGED <<curr_list, items, curr_path, store, err_stack, tasks, faults>>

\* handle_event, KeyCode::Left | 'h'
HandleLeft ==
    /\ curr_list' = "LeftList"
    /\ UNCHANGED <<items, state, curr_path, store, err_stack, tasks, faults>>

\* handle_event, KeyCode::Right | 'l'
HandleRight ==
    /\ curr_list' = "RightList"
    /\ UNCHANGED <<items, state, curr_path, store, err_stack, tasks, faults>>

\* handle_event, 'm' | 'c' | 'd'
HandleMark(selection) ==
    /\ items' = [items EXCEPT ![curr_list] =
                    SelectableContainer_select(@, state[curr_list], selection)]
    /\ UNCHANGED <<curr_list, state, curr_path, store, err_stack, tasks, faults>>

\* A refresh that empties the entries before it lists, and so loses them when the
\* listing fails.
mut_HandleRefresh_clears ==
    \E okL, okR \in BOOLEAN :
        LET n == (IF okL THEN 0 ELSE 1) + (IF okR THEN 0 ELSE 1)
        IN  /\ faults + n <= MaxFaults
            /\ faults' = faults + n
            /\ items' = [p \in Panes |->
                           IF (p = "LeftList" /\ okL) \/ (p = "RightList" /\ okR)
                           THEN refresh(p) ELSE <<>>]
            /\ err_stack' = err_stack
                  \o (IF okL THEN <<>>
                      ELSE <<ListError("LeftList", curr_path["LeftList"])>>)
                  \o (IF okR THEN <<>>
                      ELSE <<ListError("RightList", curr_path["RightList"])>>)
            /\ UNCHANGED <<curr_list, state, curr_path, store, tasks>>

\* A refresh that reports its own errors in place of the recorded ones.
mut_HandleRefresh_resets ==
    \E okL, okR \in BOOLEAN :
        LET n == (IF okL THEN 0 ELSE 1) + (IF okR THEN 0 ELSE 1)
        IN  /\ faults + n <= MaxFaults
            /\ faults' = faults + n
            /\ items' = [p \in Panes |->
                           IF (p = "LeftList" /\ okL) \/ (p = "RightList" /\ okR)
                           THEN refresh(p) ELSE items[p]]
            /\ err_stack' =
                  (IF okL THEN <<>>
                   ELSE <<ListError("LeftList", curr_path["LeftList"])>>)
                  \o (IF okR THEN <<>>
                      ELSE <<ListError("RightList", curr_path["RightList"])>>)
            /\ UNCHANGED <<curr_list, state, curr_path, store, tasks>>

\* handle_event, 'r': refresh_lists, the left pane and then the right one.
HandleRefresh ==
    \E okL, okR \in BOOLEAN :
        LET n == (IF okL THEN 0 ELSE 1) + (IF okR THEN 0 ELSE 1)
        IN  /\ faults + n <= MaxFaults
            /\ faults' = faults + n
            /\ items' = [p \in Panes |->
                           IF (p = "LeftList" /\ okL) \/ (p = "RightList" /\ okR)
                           THEN refresh(p) ELSE items[p]]
            /\ err_stack' = err_stack
                  \o (IF okL THEN <<>>
                      ELSE <<ListError("LeftList", curr_path["LeftList"])>>)
                  \o (IF okR THEN <<>>
                      ELSE <<ListError("RightList", curr_path["RightList"])>>)
            /\ UNCHANGED <<curr_list, state, curr_path, store, tasks>>

\* The prefix after a failed listing that followed move_into_selected_dir.
rollback_into(prefix) == move_out_of_selected_dir(prefix)

\* handle_event, KeyCode::Char(' '): move_into_selected_dir, refresh, and on Err
\* move_out_of_selected_dir and handle_err.  Entering a directory clears the
\* cursor once the new listing is in (S3List::move_into_selected_dir, Ok branch).
HandleSpace ==
    LET p == curr_list
        candidate == move_into_selected_dir(curr_path[p], items[p], state[p])
    IN  /\ ~move_into_panics(items[p], state[p])
        /\ \E ok \in BOOLEAN :
            /\ Allowed(ok, TRUE)
            /\ faults' = Charge(ok, TRUE)
            /\ IF ok
               THEN /\ curr_path' = [curr_path EXCEPT ![p] = candidate]
                    /\ items' = [items EXCEPT ![p] = list_objects(store[p], candidate)]
                    /\ state' = [state EXCEPT ![p] = None]
                    /\ UNCHANGED err_stack
               ELSE /\ curr_path' = [curr_path EXCEPT ![p] = rollback_into(candidate)]
                    /\ err_stack' = Append(err_stack, ListError(p, candidate))
                    /\ UNCHANGED <<items, state>>
        /\ UNCHANGED <<curr_list, store, tasks>>

\* handle_event, KeyCode::Backspace: move_out_of_selected_dir, refresh, and on Err
\* move_into_selected_dir and handle_err.
HandleBackspace ==
    LET p == curr_list
        candidate == move_out_of_selected_dir(curr_path[p])
    IN  \E ok \in BOOLEAN :
            /\ Allowed(ok, TRUE)
            /\ faults' = Charge(ok, TRUE)
            /\ IF ok
               THEN /\ curr_path' = [curr_path EXCEPT ![p] = candidate]
                    /\ items' = [items EXCEPT ![p] = list_objects(store[p], candidate)]
                    /\ UNCHANGED err_stack
               ELSE /\ ~move_into_panics(items[p], state[p])
                    /\ curr_path' = [curr_path EXCEPT ![p] =
                                        move_into_selected_dir(candidate, items[p], state[p])]
                    /\ err_stack' = Append(err_stack, ListError(p, candidate))
                    /\ UNCHANGED items
        /\ UNCHANGED <<curr_list, state, store, tasks>>

\* ------------------------------------------------------------------ FileCRUD
\* FileCRUD::put_file, Ok branch: the backend stores the path, and the list gains
\* the name when the pane still shows the directory written to.
\* A put that reports Ok without the object being stored.
mut_put_file_store_lost(p, path) == store[p]

put_file_store(p, path) == store[p] \cup {path}

\* A patch that adds the name whatever directory the pane shows.
mut_put_file_items_always(p, its, path) ==
    add_new_element(its, get_filename_from_path(path))

put_file_items(p, its, path) ==
    IF curr_path[p] = path_dir(path)
    THEN add_new_element(its, get_filename_from_path(path))
    ELSE its

\* FileCRUD::delete_file, Ok branch: the backend drops the path, and the entry of
\* that file name is removed from the list.
\* A delete that reports Ok without the object being removed.
mut_delete_file_store_kept(p, path) == store[p]

delete_file_store(p, path) == store[p] \ {path}

delete_file_list(p, path) ==
    remove_element_of_filename(items[p], state[p], get_filename_from_path(path))

\* ------------------------------------------------------------------ tasks
\* A call that returns to where it was awaited: the task never gets past it.
mut_Advance_stays(t, pc, field, ok) ==
    [tasks EXCEPT ![t] = [@ EXCEPT ![field] = IF ok THEN "ok" ELSE "err"]]

\* The task resumes after the call it awaited, the outcome of the call recorded.
Advance(t, pc, field, ok) ==
    [tasks EXCEPT ![t] = [@ EXCEPT !.pc = pc, ![field] = IF ok THEN "ok" ELSE "err"]]

\* spawn_move_task: from.get_file_stream(&from_path).await, and on Ok
\* from.start_processing_item(&file_name).
MoveTaskOpen(t) ==
    LET tk == tasks[t]
        present == tk.from_path \in store[tk.from]
    IN  /\ tk.op = "move" /\ tk.pc = "open"
        /\ \E ok \in BOOLEAN :
            /\ ok => present
            /\ Allowed(ok, present)
            /\ faults' = Charge(ok, present)
            /\ IF ok
               THEN /\ items' = [items EXCEPT ![tk.from] =
                                    start_processing_item(@, tk.file_name)]
                    /\ tasks' = Advance(t, "put", "get", ok)
                    /\ UNCHANGED err_stack
               ELSE /\ err_stack' = Append(err_stack,
                                           ComponentError(tk.from, "get", tk.from_path))
                    /\ tasks' = Advance(t, "done", "get", ok)
                    /\ UNCHANGED items
        /\ UNCHANGED <<curr_list, state, curr_path, store>>

\* spawn_move_task: to.put_file(&to_path, file).await.unwrap_or_else(push)
MoveTaskPut(t) ==
    LET tk == tasks[t]
    IN  /\ tk.op = "move" /\ tk.pc = "put"
        /\ \E ok \in BOOLEAN :
            /\ Allowed(ok, TRUE)
            /\ faults' = Charge(ok, TRUE)
            /\ IF ok
               THEN /\ store' = [store EXCEPT ![tk.to] = put_file_store(tk.to, tk.to_path)]
                    /\ items' = [items EXCEPT ![tk.to] =
                                    put_file_items(tk.to, @, tk.to_path)]
                    /\ UNCHANGED err_stack
               ELSE /\ err_stack' = Append(err_stack,
                                           ComponentError(tk.to, "put", tk.to_path))
                    /\ UNCHANGED <<store, items>>
            /\ tasks' = Advance(t, "del", "put", ok)
        /\ UNCHANGED <<curr_list, state, curr_path>>

\* spawn_move_task: from.delete_file(&from_path).await.unwrap_or_else(push)
MoveTaskDelete(t) ==
    LET tk == tasks[t]
        present == tk.from_path \in store[tk.from]
    IN  /\ tk.op = "move" /\ tk.pc = "del"
        /\ \E ok \in BOOLEAN :
            /\ Allowed(ok, present)
            /\ faults' = Charge(ok, present)
            /\ IF ok
               THEN /\ store' = [store EXCEPT ![tk.from] =
                                    delete_file_store(tk.from, tk.from_path)]
                    /\ items' = [items EXCEPT ![tk.from] =
                                    delete_file_list(tk.from, tk.from_path).items]
                    /\ state' = [state EXCEPT ![tk.from] =
                                    delete_file_list(tk.from, tk.from_path).state]
                    /\ UNCHANGED err_stack
               ELSE /\ err_stack' = Append(err_stack,
                                           ComponentError(tk.from, "delete", tk.from_path))
                    /\ UNCHANGED <<store, items, state>>
            /\ tasks' = Advance(t, "done", "del", ok)
        /\ UNCHANGED <<curr_list, curr_path>>

\* spawn_copy_task: from.get_file_stream(&from_path).await, and on Ok
\* from.start_processing_item(&file_name).
CopyTaskOpen(t) ==
    LET tk == tasks[t]
        present == tk.from_path \in store[tk.from]
    IN  /\ tk.op = "copy" /\ tk.pc = "open"
        /\ \E ok \in BOOLEAN :
            /\ ok => present
            /\ Allowed(ok, present)
            /\ faults' = Charge(ok, present)
            /\ IF ok
               THEN /\ items' = [items EXCEPT ![tk.from] =
                                    start_processing_item(@, tk.file_name)]
                    /\ tasks' = Advance(t, "put", "get", ok)
                    /\ UNCHANGED err_stack
               ELSE /\ err_stack' = Append(err_stack,
                                           ComponentError(tk.from, "get", tk.from_path))
                    /\ tasks' = Advance(t, "done", "get", ok)
                    /\ UNCHANGED items
        /\ UNCHANGED <<curr_list, state, curr_path, store>>

\* A copy whose put step keeps the delete of the move it was written from.
mut_CopyTaskPut_deletes(t) ==
    LET tk == tasks[t]
    IN  /\ tk.op = "copy" /\ tk.pc = "put"
        /\ store' = [store EXCEPT
                        ![tk.to] = put_file_store(tk.to, tk.to_path),
                        ![tk.from] = store[tk.from] \ {tk.from_path}]
        /\ items' = [items EXCEPT
                        ![tk.to] = put_file_items(tk.to, @, tk.to_path),
                        ![tk.from] = stop_processing_item(@, tk.file_name)]
        /\ tasks' = Advance(t, "done", "put", TRUE)
        /\ UNCHANGED <<curr_list, state, curr_path, err_stack, faults>>

\* spawn_copy_task: to.put_file(&to_path, file).await.unwrap_or_else(push), then
\* from.stop_processing_item(&file_name).
CopyTaskPut(t) ==
    LET tk == tasks[t]
    IN  /\ tk.op = "copy" /\ tk.pc = "put"
        /\ \E ok \in BOOLEAN :
            /\ Allowed(ok, TRUE)
            /\ faults' = Charge(ok, TRUE)
            /\ IF ok
               THEN /\ store' = [store EXCEPT ![tk.to] = put_file_store(tk.to, tk.to_path)]
                    /\ items' = [items EXCEPT
                                    ![tk.to] = put_file_items(tk.to, @, tk.to_path),
                                    ![tk.from] = stop_processing_item(@, tk.file_name)]
                    /\ UNCHANGED err_stack
               ELSE /\ err_stack' = Append(err_stack,
                                           ComponentError(tk.to, "put", tk.to_path))
                    /\ items' = [items EXCEPT
                                    ![tk.from] = stop_processing_item(@, tk.file_name)]
                    /\ UNCHANGED store
            /\ tasks' = Advance(t, "done", "put", ok)
        /\ UNCHANGED <<curr_list, state, curr_path>>

\* spawn_delete_task: from.start_processing_item(&file_name), and the delete is sent.
DeleteTaskStart(t) ==
    LET tk == tasks[t]
    IN  /\ tk.op = "delete" /\ tk.pc = "start"
        /\ items' = [items EXCEPT ![tk.from] = start_processing_item(@, tk.file_name)]
        /\ tasks' = [tasks EXCEPT ![t] = [@ EXCEPT !.pc = "del"]]
        /\ UNCHANGED <<curr_list, state, curr_path, store, err_stack, faults>>

\* spawn_delete_task: from.delete_file(&from_path).await.unwrap_or_else(push)
DeleteTaskDelete(t) ==
    LET tk == tasks[t]
        present == tk.from_path \in store[tk.from]
    IN  /\ tk.op = "delete" /\ tk.pc = "del"
        /\ \E ok \in BOOLEAN :
            /\ Allowed(ok, present)
            /\ faults' = Charge(ok, present)
            /\ IF ok
               THEN /\ store' = [store EXCEPT ![tk.from] =
                                    delete_file_store(tk.from, tk.from_path)]
                    /\ items' = [items EXCEPT ![tk.from] =
                                    delete_file_list(tk.from, tk.from_path).items]
                    /\ state' = [state EXCEPT ![tk.from] =
                                    delete_file_list(tk.from, tk.from_path).state]
                    /\ UNCHANGED err_stack
               ELSE /\ err_stack' = Append(err_stack,
                                           ComponentError(tk.from, "delete", tk.from_path))
                    /\ UNCHANGED <<store, items, state>>
            /\ tasks' = Advance(t, "done", "del", ok)
        /\ UNCHANGED <<curr_list, curr_path>>

\* ------------------------------------------------------------------ Spec
\* One key event, handled to the end by DualPaneList::handle_event, within the
\* bounds of a run.
Key(handled, max_keys, max_tasks) ==
    /\ keys < max_keys
    /\ keys' = keys + 1
    /\ handled
    /\ Len(tasks') <= max_tasks
    /\ UNCHANGED aux

\* One spawned task runs up to its next .await.
Task(step) == step /\ UNCHANGED keys /\ UNCHANGED aux

Next ==
    \/ Key(HandleEnter, MaxKeys, MaxTasks)
    \/ Key(HandleDown, MaxKeys, MaxTasks)
    \/ Key(HandleUp, MaxKeys, MaxTasks)
    \/ Key(HandleLeft, MaxKeys, MaxTasks)
    \/ Key(HandleRight, MaxKeys, MaxTasks)
    \/ \E selection \in {"ToMove", "ToCopy", "ToDelete"} :
          Key(HandleMark(selection), MaxKeys, MaxTasks)
    \/ Key(HandleRefresh, MaxKeys, MaxTasks)
    \/ \E t \in 1..Len(tasks) : Task(MoveTaskOpen(t))
    \/ \E t \in 1..Len(tasks) : Task(MoveTaskPut(t))
    \/ \E t \in 1..Len(tasks) : Task(MoveTaskDelete(t))
    \/ \E t \in 1..Len(tasks) : Task(CopyTaskOpen(t))
    \/ \E t \in 1..Len(tasks) : Task(CopyTaskPut(t))
    \/ \E t \in 1..Len(tasks) : Task(DeleteTaskStart(t))
    \/ \E t \in 1..Len(tasks) : Task(DeleteTaskDelete(t))

Spec == Init /\ [][Next]_vars

\* A single pane of three files, and a user who only moves the cursor down, marks
\* files for moving and presses Enter while no error is shown: the batches of moves,
\* up to the moment their errors are acknowledged.
InitBatch ==
    /\ curr_list = "LeftList"
    /\ curr_path = StartPath
    /\ store = StoreOf([p \in Panes |-> IF p = "LeftList" THEN FileNames ELSE {}])
    /\ items = [p \in Panes |-> list_objects(store[p], curr_path[p])]
    /\ state = [p \in Panes |-> None]
    /\ err_stack = <<>>
    /\ tasks = <<>>
    /\ faults = 0
    /\ keys = 0
    /\ Idle

NextBatch ==
    \/ Key(err_stack_empty /\ HandleEnter, BatchKeys, BatchTasks)
    \/ Key(HandleDown, BatchKeys, BatchTasks)
    \/ Key(HandleMark("ToMove"), BatchKeys, BatchTasks)
    \/ \E t \in 1..Len(tasks) : Task(MoveTaskOpen(t))
    \/ \E t \in 1..Len(tasks) : Task(MoveTaskPut(t))
    \/ \E t \in 1..Len(tasks) : Task(MoveTaskDelete(t))

SpecBatch == InitBatch /\ [][NextBatch]_vars

\* ------------------------------------------------------------------ navigation
\* Two buckets browsed from their roots: the left one holds a file and a directory
\* d/ with two files and a directory of its own, the right one is empty.  The user
\* moves the cursor, enters and leaves directories, marks files for moving or
\* deletion, presses Enter and refreshes; the focus stays on the left pane.
NavStore ==
    [p \in Panes |->
        IF p = "LeftList"
        THEN {append_path_to_dir("", "d/"), append_path_to_dir("", "f1"),
              append_path_to_dir("d", "d/"), append_path_to_dir("d", "f1"),
              append_path_to_dir("d", "f2")}
        ELSE {}]

InitNav ==
    /\ curr_list = "LeftList"
    /\ curr_path = [p \in Panes |-> ""]
    /\ store = NavStore
    /\ items = [p \in Panes |-> list_objects(store[p], curr_path[p])]
    /\ state = [p \in Panes |-> None]
    /\ err_stack = <<>>
    /\ tasks = <<>>
    /\ faults = 0
    /\ keys = 0
    /\ Idle

NextNav ==
    \/ Key(HandleEnter, MaxNavKeys, MaxNavTasks)
    \/ Key(HandleDown, MaxNavKeys, MaxNavTasks)
    \/ Key(HandleUp, MaxNavKeys, MaxNavTasks)
    \/ Key(HandleSpace, MaxNavKeys, MaxNavTasks)
    \/ Key(HandleBackspace, MaxNavKeys, MaxNavTasks)
    \/ Key(\E selection \in {"ToMove", "ToDelete"} : HandleMark(selection),
           MaxNavKeys, MaxNavTasks)
    \/ Key(HandleRefresh, MaxNavKeys, MaxNavTasks)
    \/ \E t \in 1..Len(tasks) : Task(MoveTaskOpen(t))
    \/ \E t \in 1..Len(tasks) : Task(MoveTaskPut(t))
    \/ \E t \in 1..Len(tasks) : Task(MoveTaskDelete(t))
    \/ \E t \in 1..Len(tasks) : Task(DeleteTaskStart(t))
    \/ \E t \in 1..Len(tasks) : Task(DeleteTaskDelete(t))

SpecNav == InitNav /\ [][NextNav]_vars

\* ------------------------------------------------------------------ list component
\* The list components on their own: the left one is an ASelectableFilenameList
\* with the blanket implementations of view/components.rs, the right one an S3List
\* with its own implementations (view/components/s3_list.rs).  Each starts from a
\* listing and takes any sequence of the operations its callers apply to it.
Selections == {"ToMove", "ToCopy", "ToDelete"}

Listings == {list_objects({append_path_to_dir("", n) : n \in S}, "") :
                S \in SUBSET {"d/", "f1", "f2"}}

InitList ==
    /\ curr_list = "LeftList"
    /\ curr_path = [p \in Panes |-> ""]
    /\ store = [p \in Panes |-> {}]
    /\ items \in [Panes -> Listings]
    /\ state = [p \in Panes |-> None]
    /\ err_stack = <<>>
    /\ tasks = <<>>
    /\ faults = 0
    /\ keys = 0
    /\ Idle

ListOp(op) ==
    /\ keys < MaxListOps
    /\ keys' = keys + 1
    /\ op
    /\ UNCHANGED <<curr_list, curr_path, store, err_stack, tasks, faults>>
    /\ UNCHANGED aux

ListNext(p) ==
    /\ state' = [state EXCEPT ![p] = next(items[p], @)]
    /\ UNCHANGED items

ListPrevious(p) ==
    /\ state' = [state EXCEPT ![p] = previous(items[p], @)]
    /\ UNCHANGED items

ListSelect(p, selection) ==
    /\ items' = [items EXCEPT ![p] =
                    IF p = "LeftList"
                    THEN SelectableContainer_select(@, state[p], selection)
                    ELSE S3List_select(@, state[p], selection)]
    /\ UNCHANGED state

ListProcessing(file_name) ==
    /\ items' = [items EXCEPT !["LeftList"] =
                    set_item_state_by_filename(@, file_name, "Proccessed")]
    /\ UNCHANGED state

ListRemove(p, file_name) ==
    LET r == remove_element_of_filename(items[p], state[p], file_name)
    IN  /\ items' = [items EXCEPT ![p] = r.items]
        /\ state' = [state EXCEPT ![p] = r.state]

ListAdd(p, file_name) ==
    /\ items' = [items EXCEPT ![p] =
                    IF p = "LeftList"
                    THEN add_new_element(@, file_name)
                    ELSE S3List_add_new_element(@, file_name)]
    /\ UNCHANGED state

NextList ==
    \/ \E p \in Panes : ListOp(ListNext(p))
    \/ \E p \in Panes : ListOp(ListPrevious(p))
    \/ \E p \in Panes, selection \in Selections : ListOp(ListSelect(p, selection))
    \/ \E file_name \in {"f1", "f2"} : ListOp(ListProcessing(file_name))
    \/ \E p \in Panes, file_name \in {"f1", "f2"} : ListOp(ListRemove(p, file_name))
    \/ \E p \in Panes, file_name \in {"f1", "f2"} : ListOp(ListAdd(p, file_name))

SpecList == InitList /\ [][NextList]_vars

\* ------------------------------------------------------------------ prefixes
\* The prefix of an object-store pane on its own: the left pane is the S3List of
\* view/components/s3_list.rs, the right one the S3List of
\* view/components/s3list.rs.  Each starts at the bucket root over a listing whose
\* directories list the same names again, and takes any sequence of cursor moves,
\* move_into_selected_dir and move_out_of_selected_dir.
InitPrefix ==
    /\ curr_list = "LeftList"
    /\ curr_path = [p \in Panes |-> ""]
    /\ store = [p \in Panes |-> {}]
    /\ items \in [Panes -> Listings]
    /\ state = [p \in Panes |-> None]
    /\ err_stack = <<>>
    /\ tasks = <<>>
    /\ faults = 0
    /\ keys = 0
    /\ Idle

PrefixOp(op) ==
    /\ keys < MaxPrefixOps
    /\ keys' = keys + 1
    /\ op
    /\ UNCHANGED <<curr_list, items, store, err_stack, tasks, faults>>
    /\ UNCHANGED aux

\* Navigatable::move_into_selected_dir of pane p: the new prefix.
navigate_into(p, prefix, its, st) ==
    IF p = "LeftList"
    THEN move_into_selected_dir(prefix, its, st)
    ELSE s3list_move_into_selected_dir(prefix, its, st)

\* Navigatable::move_out_of_selected_dir of pane p: the new prefix.
navigate_out(p, prefix) ==
    IF p = "LeftList"
    THEN move_out_of_selected_dir(prefix)
    ELSE s3list_move_out_of_selected_dir(prefix)

PrefixNext(p) ==
    /\ state' = [state EXCEPT ![p] = next(items[p], @)]
    /\ UNCHANGED curr_path

PrefixInto(p) ==
    /\ ~move_into_panics(items[p], state[p])
    /\ curr_path' = [curr_path EXCEPT ![p] = navigate_into(p, @, items[p], state[p])]
    /\ UNCHANGED state

PrefixOut(p) ==
    /\ curr_path' = [curr_path EXCEPT ![p] = navigate_out(p, @)]
    /\ UNCHANGED state

NextPrefix ==
    \/ \E p \in Panes : PrefixOp(PrefixNext(p))
    \/ \E p \in Panes : PrefixOp(PrefixInto(p))
    \/ \E p \in Panes : PrefixOp(PrefixOut(p))

SpecPrefix == InitPrefix /\ [][NextPrefix]_vars

\* ------------------------------------------------------------------ bucket
\* The S3Provider over one bucket.  The keys a bucket may hold, in the order
\* ListObjectsV2 returns them.
KeyOrder == <<"a/", "a/b.txt", "a/c/", "a/c/d.txt", "a/e.txt", "f">>

BucketKeys == {KeyOrder[i] : i \in 1..Len(KeyOrder)}

\* The prefixes S3List::refresh passes to list_objects: the root, a directory as
\* s3_list.rs stores it and as s3list.rs stores it.
BucketPrefixes == {"", "a", "a/"}

\* request.prefix: a delimiter is pushed onto a non-empty prefix.
RequestPrefix(prefix) == IF prefix = "" THEN "" ELSE prefix \o "/"

\* s3_client.list_objects_v2(request): the keys of the bucket that start with the
\* requested prefix.
list_objects_v2(bucket, request_prefix) ==
    SelectSeq(KeyOrder, LAMBDA key :
        /\ key \in bucket
        /\ Len(key) >= Len(request_prefix)
        /\ SubSeq(key, 1, Len(request_prefix)) = request_prefix)

\* A filter that lets every key pass at the root of the bucket.
mut_is_top_level_root_any(prefix, file_name) ==
    IF prefix = "" THEN TRUE
    ELSE IF file_name = "" THEN FALSE
    ELSE LET seperator_count == Cardinality(SlashIndices(file_name))
         IN  seperator_count = 0 \/ (seperator_count = 1 /\ LastChar(file_name) = "/")

\* The filter closure of list_objects over key.split_at(prefix.len()): only
\* top-level files and directories of the prefix pass.
is_top_level(prefix, file_name) ==
    IF prefix = ""
    THEN IF SlashIndices(file_name) = {} THEN TRUE
         ELSE (CHOOSE i \in SlashIndices(file_name) :
                  \A j \in SlashIndices(file_name) : i <= j) - 1 = Len(file_name) - 1
    ELSE IF file_name = "" THEN FALSE
    ELSE LET seperator_count == Cardinality(SlashIndices(file_name))
         IN  seperator_count = 0 \/ (seperator_count = 1 /\ LastChar(file_name) = "/")

\* S3Provider::list_objects over the keys of a bucket, and S3List::refresh's
\* SelectableEntry::new over each object: the entries, in the order of the keys.
S3Provider_list_objects(bucket, prefix) ==
    LET request_prefix == RequestPrefix(prefix)
        n == Len(request_prefix)
        kept == SelectSeq(list_objects_v2(bucket, request_prefix), LAMBDA key :
                    is_top_level(SubSeq(key, 1, n), SubSeq(key, n + 1, Len(key))))
    IN  [i \in 1..Len(kept) |->
            LET file_name == SubSeq(kept[i], n + 1, Len(kept[i]))
            IN  NewEntry(file_name, KindOf(file_name))]

InitBucket ==
    /\ curr_list = "LeftList"
    /\ curr_path = [p \in Panes |-> ""]
    /\ store \in {[p \in Panes |-> IF p = "LeftList" THEN bucket ELSE {}] :
                    bucket \in SUBSET BucketKeys}
    /\ items = [p \in Panes |-> <<>>]
    /\ state = [p \in Panes |-> None]
    /\ err_stack = <<>>
    /\ tasks = <<>>
    /\ faults = 0
    /\ keys = 0
    /\ Idle

BucketOp(op) ==
    /\ keys < MaxBucketOps
    /\ keys' = keys + 1
    /\ op
    /\ UNCHANGED <<curr_list, state, err_stack, tasks, faults>>
    /\ UNCHANGED aux

\* S3List::refresh at a prefix, the listing Ok.
BucketList(prefix) ==
    /\ curr_path' = [curr_path EXCEPT !["LeftList"] = prefix]
    /\ items' = [items EXCEPT !["LeftList"] =
                    S3Provider_list_objects(store["LeftList"], prefix)]
    /\ UNCHANGED store

\* S3Provider::put_object, Ok.
BucketPut(key) ==
    /\ store' = [store EXCEPT !["LeftList"] = @ \cup {key}]
    /\ UNCHANGED <<curr_path, items>>

\* S3Provider::delete_object, Ok.
BucketDelete(key) ==
    /\ store' = [store EXCEPT !["LeftList"] = @ \ {key}]
    /\ UNCHANGED <<curr_path, items>>

NextBucket ==
    \/ \E prefix \in BucketPrefixes : BucketOp(BucketList(prefix))
    \/ \E key \in BucketKeys : BucketOp(BucketPut(key))
    \/ \E key \in BucketKeys : BucketOp(BucketDelete(key))

SpecBucket == InitBucket /\ [][NextBucket]_vars

\* ------------------------------------------------------------------ patches
\* Copies into a pane that may navigate meanwhile: the left bucket holds a
\* directory d/ and a file f1 at its root, the right one the files f1 and f2.  The
\* user moves the cursor down, switches panes, marks files for copying, presses
\* Enter and enters directories while the copy tasks run.
PatchStore ==
    [p \in Panes |->
        IF p = "LeftList"
        THEN {append_path_to_dir("", "d/"), append_path_to_dir("", "f1")}
        ELSE {append_path_to_dir("", "f1"), append_path_to_dir("", "f2")}]

InitPatch ==
    /\ curr_list = "LeftList"
    /\ curr_path = [p \in Panes |-> ""]
    /\ store = PatchStore
    /\ items = [p \in Panes |-> list_objects(store[p], curr_path[p])]
    /\ state = [p \in Panes |-> None]
    /\ err_stack = <<>>
    /\ tasks = <<>>
    /\ faults = 0
    /\ keys = 0
    /\ Idle

NextPatch ==
    \/ Key(HandleEnter, MaxPatchKeys, MaxPatchTasks)
    \/ Key(HandleDown, MaxPatchKeys, MaxPatchTasks)
    \/ Key(HandleLeft, MaxPatchKeys, MaxPatchTasks)
    \/ Key(HandleRight, MaxPatchKeys, MaxPatchTasks)
    \/ Key(HandleSpace, MaxPatchKeys, MaxPatchTasks)
    \/ Key(HandleMark("ToCopy"), MaxPatchKeys, MaxPatchTasks)
    \/ \E t \in 1..Len(tasks) : Task(CopyTaskOpen(t))
    \/ \E t \in 1..Len(tasks) : Task(CopyTaskPut(t))

SpecPatch == InitPatch /\ [][NextPatch]_vars

\* ------------------------------------------------------------------ backends
\* A FilesystemList on the left and an S3List on the right, and copies between
\* them.  S3List::get_file_stream maps a failed download to Err (CopyTaskOpen);
\* FilesystemList::get_file_stream goes through filesystem::get_file_byte_stream,
\* which unwraps the result of open: a file that cannot be opened panics the task,
\* which ends there, and the Err arm of the match is never taken.
FilesystemList_CopyTaskOpen(t) ==
    LET tk == tasks[t]
        present == tk.from_path \in store[tk.from]
    IN  /\ tk.op = "copy" /\ tk.pc = "open"
        /\ \E ok \in BOOLEAN :
            /\ ok => present
            /\ Allowed(ok, present)
            /\ faults' = Charge(ok, present)
            /\ IF ok
               THEN /\ items' = [items EXCEPT ![tk.from] =
                                    start_processing_item(@, tk.file_name)]
                    /\ tasks' = Advance(t, "put", "get", ok)
               ELSE /\ tasks' = Advance(t, "done", "get", ok)
                    /\ UNCHANGED items
        /\ UNCHANGED <<curr_list, state, curr_path, store, err_stack>>

InitBackends ==
    /\ curr_list = "LeftList"
    /\ curr_path = StartPath
    /\ store = StoreOf([p \in Panes |-> IF p = "LeftList" THEN {"f1", "f2"} ELSE {"f3"}])
    /\ items = [p \in Panes |-> list_objects(store[p], curr_path[p])]
    /\ state = [p \in Panes |-> None]
    /\ err_stack = <<>>
    /\ tasks = <<>>
    /\ faults = 0
    /\ keys = 0
    /\ Idle

NextBackends ==
    \/ Key(HandleEnter, MaxBackendKeys, MaxBackendTasks)
    \/ Key(HandleDown, MaxBackendKeys, MaxBackendTasks)
    \/ Key(HandleLeft, MaxBackendKeys, MaxBackendTasks)
    \/ Key(HandleRight, MaxBackendKeys, MaxBackendTasks)
    \/ Key(HandleMark("ToCopy"), MaxBackendKeys, MaxBackendTasks)
    \/ Key(HandleRefresh, MaxBackendKeys, MaxBackendTasks)
    \/ \E t \in 1..Len(tasks) :
          Task(tasks[t].from = "LeftList" /\ FilesystemList_CopyTaskOpen(t))
    \/ \E t \in 1..Len(tasks) : Task(tasks[t].from = "RightList" /\ CopyTaskOpen(t))
    \/ \E t \in 1..Len(tasks) : Task(CopyTaskPut(t))

SpecBackends == InitBackends /\ [][NextBackends]_vars

\* ------------------------------------------------------------------ locks
\* The mutexes of the program and the order in which every operation takes them.
\* The left pane is a FilesystemList and the right pane an S3List (src/bin/versfm/
\* main.rs builds either kind for either side).
\* The thread of the UI loop (handle_event and render).
UiLoop == "ui"

\* The tokio workers that run spawned tasks.
Workers == {"worker1", "worker2"}

Threads == {UiLoop} \cup Workers

\* Arc<Mutex<Vec<SelectableEntry>>>, Arc<Mutex<ListState>> and the Mutex of the
\* current path of pane p; the Arc<Mutex<Vec<ComponentError>>> of the screen.
ItemsMutex(p) == <<p, "items">>

StateMutex(p) == <<p, "state">>

PathMutex(p) == <<p, "curr_path">>

\* lock() bound to a local: the guard lives until Drop.
Lock(m) == <<"lock", m>>

Drop(m) == <<"drop", m>>

\* lock() in a temporary: the guard is dropped at the end of the statement.
Touch(m) == <<"touch", m>>

\* DualPaneList::lock_err_stack in handle_err, err_stack_empty, err_stack_clear, and
\* the closures of the tasks.
err_stack_locks == <<Touch(<<"DualPaneList", "err_stack">>)>>

\* StatefulContainer::get_current / clear_state.
get_current_locks(p) == <<Touch(StateMutex(p))>>

\* StatefulContainer::next and previous, the cursor locked before the entries.
mut_next_locks_state_first(p) ==
    <<Lock(StateMutex(p)), Lock(ItemsMutex(p)), Drop(ItemsMutex(p)), Drop(StateMutex(p))>>

\* StatefulContainer::next and previous: lock_items, then lock_state; the guards are
\* dropped in reverse order of declaration.
next_locks(p) ==
    <<Lock(ItemsMutex(p)), Lock(StateMutex(p)), Drop(StateMutex(p)), Drop(ItemsMutex(p))>>

\* ASelectableFilenameList::set_item_state_by_filename (start_processing_item and
\* stop_processing_item) and get_item_by_filename.
get_item_by_filename_locks(p) == <<Touch(ItemsMutex(p))>>

\* Navigatable::get_current_path (get_prefix).
get_current_path_locks(p) == <<Touch(PathMutex(p))>>

\* FileCRUD::put_file, the backend call Ok: the path is compared, the entry added
\* by ASelectableFilenameList::add_new_element, where the guard of
\* get_item_by_filename is gone when lock_items is called again.
put_file_locks(p) ==
    get_current_path_locks(p) \o get_item_by_filename_locks(p) \o <<Touch(ItemsMutex(p))>>

\* FileCRUD::delete_file, the backend call Ok:
\* ASelectableFilenameList::remove_element_of_filename locks the entries, then
\* the cursor.
delete_file_locks(p) ==
    <<Lock(ItemsMutex(p)), Lock(StateMutex(p)), Drop(StateMutex(p)), Drop(ItemsMutex(p))>>

\* FilesystemList::refresh locks the entries and reads the path under that lock;
\* S3List::refresh reads the prefix, lists, and then locks the entries.
refresh_locks(p) ==
    IF p = "LeftList"
    THEN <<Lock(ItemsMutex(p))>> \o get_current_path_locks(p) \o <<Drop(ItemsMutex(p))>>
    ELSE get_current_path_locks(p) \o <<Touch(ItemsMutex(p))>>

\* Navigatable::move_into_selected_dir: the cursor, the name under it, the path.
move_into_selected_dir_locks(p) ==
    (IF p = "LeftList" THEN get_current_path_locks(p) ELSE <<>>)
        \o get_current_locks(p) \o <<Touch(ItemsMutex(p)), Touch(PathMutex(p))>>

\* Navigatable::move_out_of_selected_dir: get_prefix, then the path is replaced.
move_out_of_selected_dir_locks(p) == get_current_path_locks(p) \o <<Touch(PathMutex(p))>>

\* DualPaneList::handle_event (and render) on the focused pane p; ok is the outcome
\* of the one fallible call or test of the arm.
handle_event_locks(key, p, ok) ==
    LET \* move_from_to / copy_from_to / delete_from with one entry selected:
        \* get_selected, then the paths read by the spawn function.
        spawn_locks(from, to) ==
            <<Touch(ItemsMutex(from))>> \o get_current_path_locks(from)
                \o get_current_path_locks(to)
        \* TuiListDisplay::make_list and the get_current of render, for one pane.
        make_list_locks(q) ==
            get_current_path_locks(q) \o <<Touch(ItemsMutex(q))>> \o get_current_locks(q)
    IN
    CASE key = "Enter" ->
            err_stack_locks \o
                (IF ok THEN spawn_locks(Other(p), p) \o spawn_locks(p, Other(p))
                 ELSE err_stack_locks)
      [] key = "Space" ->
            move_into_selected_dir_locks(p) \o refresh_locks(p) \o
                (IF ok THEN <<>> ELSE move_out_of_selected_dir_locks(p) \o err_stack_locks)
      [] key = "Backspace" ->
            move_out_of_selected_dir_locks(p) \o refresh_locks(p) \o
                (IF ok THEN <<>> ELSE move_into_selected_dir_locks(p) \o err_stack_locks)
      [] key = "Down" -> next_locks(p)
      \* SelectableContainer::select: lock_items, then get_current() locks the state.
      [] key = "Mark" ->
            <<Lock(ItemsMutex(p))>> \o get_current_locks(p) \o <<Drop(ItemsMutex(p))>>
      [] key = "Refresh" ->
            refresh_locks("LeftList") \o (IF ok THEN <<>> ELSE err_stack_locks)
                \o refresh_locks("RightList")
      \* DualPaneList::render: the lists, or the error window over them.
      [] key = "Render" ->
            err_stack_locks \o
                (IF ok THEN make_list_locks("LeftList") \o make_list_locks("RightList")
                 ELSE err_stack_locks)

\* The body of a spawned task on (from, to); ok is the outcome of put_file.
task_locks(op, from, to, ok) ==
    CASE op = "copy" ->
            get_item_by_filename_locks(from)
                \o (IF ok THEN put_file_locks(to) ELSE err_stack_locks)
                \o get_item_by_filename_locks(from)
      [] op = "move" ->
            get_item_by_filename_locks(from)
                \o (IF ok THEN put_file_locks(to) ELSE err_stack_locks)
                \o delete_file_locks(from)
      [] op = "delete" ->
            get_item_by_filename_locks(from)
                \o (IF ok THEN delete_file_locks(from) ELSE err_stack_locks)

\* The mutexes thread th holds.
Held(th) == {m \in DOMAIN owner : owner[m] = th}

\* DualPaneList::new, before the first event: nothing is locked.
InitLocks ==
    /\ curr_list = "LeftList"
    /\ curr_path = StartPath
    /\ store = [p \in Panes |-> {}]
    /\ items = [p \in Panes |-> <<>>]
    /\ state = [p \in Panes |-> None]
    /\ err_stack = <<>>
    /\ tasks = <<>>
    /\ faults = 0
    /\ keys = 0
    /\ owner = [m \in {ItemsMutex(p) : p \in Panes} \cup {StateMutex(p) : p \in Panes}
                        \cup {PathMutex(p) : p \in Panes}
                        \cup {<<"DualPaneList", "err_stack">>} |-> "free"]
    /\ threads = [th \in Threads |-> <<>>]
    /\ stream = <<>>
    /\ file = <<>>
    /\ io_result = "none"

\* What no lock step changes.
LockFrame ==
    UNCHANGED <<items, state, curr_path, store, err_stack, tasks, faults, keys,
                stream, file, io_result>>

\* h / l: the focus moves; no mutex is involved.
LockFocus(p) ==
    /\ threads[UiLoop] = <<>>
    /\ curr_list' = p
    /\ UNCHANGED <<owner, threads>>
    /\ LockFrame

\* The UI loop takes the next event (or renders): its lock steps lie ahead.
LockEvent(key, ok) ==
    /\ threads[UiLoop] = <<>>
    /\ threads' = [threads EXCEPT ![UiLoop] = handle_event_locks(key, curr_list, ok)]
    /\ UNCHANGED <<owner, curr_list>>
    /\ LockFrame

\* A worker picks up a spawned task.
LockSpawn(th, op, from, ok) ==
    /\ threads[th] = <<>>
    /\ threads' = [threads EXCEPT ![th] = task_locks(op, from, Other(from), ok)]
    /\ UNCHANGED <<owner, curr_list>>
    /\ LockFrame

\* Mutex::lock blocks until the mutex is free (also when the caller holds it
\* itself: std's Mutex is not reentrant).
LockStep(th) ==
    /\ threads[th] # <<>>
    /\ LET step == Head(threads[th])
           m == step[2]
       IN CASE step[1] = "lock" -> owner[m] = "free" /\ owner' = [owner EXCEPT ![m] = th]
            [] step[1] = "touch" -> owner[m] = "free" /\ UNCHANGED owner
            [] step[1] = "drop" -> owner[m] = th /\ owner' = [owner EXCEPT ![m] = "free"]
    /\ threads' = [threads EXCEPT ![th] = Tail(@)]
    /\ UNCHANGED curr_list
    /\ LockFrame

NextLocks ==
    \/ \E p \in Panes : LockFocus(p)
    \/ \E key \in {"Enter", "Space", "Backspace", "Down", "Mark", "Refresh", "Render"},
             ok \in BOOLEAN : LockEvent(key, ok)
    \/ \E th \in Workers, op \in {"move", "copy", "delete"}, from \in Panes, ok \in BOOLEAN :
          LockSpawn(th, op, from, ok)
    \/ \E th \in Threads : LockStep(th)

SpecLocks == InitLocks /\ [][NextLocks]_vars

\* ------------------------------------------------------------------ progress
\* The buckets of NavStore, with a user who moves the cursor, marks, presses Enter,
\* refreshes and enters or leaves directories while the tasks run.  The tokio
\* runtime polls every spawned task again once the call it awaits has returned:
\* a task that can take its next step is not left waiting forever.
RunTask(t) ==
    /\ t \in 1..Len(tasks)
    /\ \/ Task(MoveTaskOpen(t))
       \/ Task(MoveTaskPut(t))
       \/ Task(MoveTaskDelete(t))
       \/ Task(CopyTaskOpen(t))
       \/ Task(CopyTaskPut(t))
       \/ Task(DeleteTaskStart(t))
       \/ Task(DeleteTaskDelete(t))

NextLive ==
    \/ Key(HandleEnter, LiveKeys, LiveTasks)
    \/ Key(HandleDown, LiveKeys, LiveTasks)
    \/ Key(HandleSpace, LiveKeys, LiveTasks)
    \/ Key(HandleBackspace, LiveKeys, LiveTasks)
    \/ \E selection \in {"ToMove", "ToCopy", "ToDelete"} :
          Key(HandleMark(selection), LiveKeys, LiveTasks)
    \/ Key(HandleRefresh, LiveKeys, LiveTasks)
    \/ \E t \in 1..LiveTasks : RunTask(t)

SpecLive ==
    InitNav /\ [][NextLive]_vars /\ \A t \in 1..LiveTasks : WF_vars(RunTask(t))

\* ------------------------------------------------------------------ filesystem
\* providers/filesystem.rs under a FilesystemList (the left pane) next to an S3List
\* over the bucket of KeyOrder (the right pane).  A directory entry of the local
\* filesystem is <<dir, name, metadata>>; fs::metadata yields a directory, a
\* regular file, or fails ("none": a dangling link, an unreadable parent).
FsOrder == <<"d", "f1", "x">>

\* The name a path resolves by: a trailing separator is ignored.
FsName(file_name) == IF LastChar(file_name) = "/" THEN Pop(file_name) ELSE file_name

\* fs::metadata(path): the metadata, "none" when it cannot be read, "absent" when
\* nothing has the path.
fs_metadata(fs, path) ==
    LET found == {e \in fs : e[1] = path_dir(path) /\ e[2] = FsName(path[2])}
    IN  IF found = {} THEN "absent" ELSE (CHOOSE e \in found : TRUE)[3]

\* A listing that names directories like files.
mut_get_files_list_plain(fs, path) ==
    LET names == SelectSeq(FsOrder, LAMBDA n : fs_metadata(fs, <<path, n>>) # "absent")
    IN  [i \in 1..Len(names) |->
            LET metadata == fs_metadata(fs, <<path, names[i]>>)
            IN  NewEntry(names[i],
                         IF metadata = "dir" THEN "Directory"
                         ELSE IF metadata = "file" THEN "File" ELSE "Unknown")]

\* get_files_list, and SelectableEntry::new over each object: read_dir in its
\* order, "/" pushed onto the name of a directory, Kind::Unknown when the
\* metadata of the entry cannot be read.
get_files_list(fs, path) ==
    LET names == SelectSeq(FsOrder, LAMBDA n : fs_metadata(fs, <<path, n>>) # "absent")
    IN  [i \in 1..Len(names) |->
            LET metadata == fs_metadata(fs, <<path, names[i]>>)
            IN  IF metadata = "dir" THEN NewEntry(names[i] \o "/", "Directory")
                ELSE IF metadata = "file" THEN NewEntry(names[i], "File")
                ELSE NewEntry(names[i], "Unknown")]

\* A remove_file that removes whatever has the path.
mut_remove_file_any(fs, path) ==
    [err |-> "", fs |-> {e \in fs : ~(e[1] = path_dir(path) /\ e[2] = FsName(path[2]))}]

\* remove_file: the io::ErrorKind of the failure ("" when Ok) and the filesystem
\* after the call.
remove_file(fs, path) ==
    LET metadata == fs_metadata(fs, path)
    IN  IF metadata = "absent" THEN [err |-> "NotFound", fs |-> fs]
        ELSE IF metadata = "none" THEN [err |-> "PermissionDenied", fs |-> fs]
        ELSE IF metadata = "dir" THEN [err |-> "Unsupported", fs |-> fs]
        ELSE [err |-> "",
              fs |-> {e \in fs : ~(e[1] = path_dir(path) /\ e[2] = FsName(path[2]))}]

\* FilesystemList::handle_error: the code is the Debug form of the ErrorKind.
FilesystemList_handle_error(err, path) ==
    [component |-> "LeftList", op |-> "delete", file |-> path, code |-> err]

InitFs ==
    /\ curr_list = "LeftList"
    /\ curr_path = [p \in Panes |-> IF p = "LeftList" THEN StartPath[p] ELSE ""]
    /\ store = [p \in Panes |-> IF p = "LeftList"
                                THEN {<<StartPath[p], "d", "dir">>,
                                      <<StartPath[p], "f1", "file">>,
                                      <<StartPath[p], "x", "none">>}
                                ELSE BucketKeys]
    /\ items = [p \in Panes |->
                  IF p = "LeftList" THEN get_files_list(store[p], curr_path[p])
                  ELSE S3Provider_list_objects(store[p], curr_path[p])]
    /\ state = [p \in Panes |-> None]
    /\ err_stack = <<>>
    /\ tasks = <<>>
    /\ faults = 0
    /\ keys = 0
    /\ Idle

FsOp(op) ==
    /\ keys < MaxFsOps
    /\ keys' = keys + 1
    /\ op
    /\ UNCHANGED <<tasks, faults>>
    /\ UNCHANGED aux

\* FilesystemList::refresh, the listing Ok.
FsRefresh ==
    /\ items' = [items EXCEPT !["LeftList"] =
                    get_files_list(store["LeftList"], curr_path["LeftList"])]
    /\ UNCHANGED <<curr_list, state, curr_path, store, err_stack>>

\* S3List::refresh at a prefix, the listing Ok.
FsBucketRefresh(prefix) ==
    /\ curr_path' = [curr_path EXCEPT !["RightList"] = prefix]
    /\ items' = [items EXCEPT !["RightList"] =
                    S3Provider_list_objects(store["RightList"], prefix)]
    /\ UNCHANGED <<curr_list, state, store, err_stack>>

\* Another program changes what a name of the directory is.
FsReplace(name, metadata) ==
    /\ store' = [store EXCEPT !["LeftList"] =
                    {e \in @ : e[2] # name} \cup {<<curr_path["LeftList"], name, metadata>>}]
    /\ UNCHANGED <<curr_list, items, state, curr_path, err_stack>>

\* FilesystemList::delete_file of the entry of index i, as a delete task calls it:
\* remove_file, and the entry is taken off the list only when that was Ok.
FsDelete(i) ==
    LET p == "LeftList"
        path == append_path_to_dir(curr_path[p], items[p][i].file_name)
        removed == remove_file(store[p], path)
    IN  /\ i \in 1..Len(items[p])
        /\ store' = [store EXCEPT ![p] = removed.fs]
        /\ IF removed.err = ""
           THEN /\ items' = [items EXCEPT ![p] = delete_file_list(p, path).items]
                /\ state' = [state EXCEPT ![p] = delete_file_list(p, path).state]
                /\ UNCHANGED err_stack
           ELSE /\ err_stack' = Append(err_stack,
                                       FilesystemList_handle_error(removed.err, path))
                /\ UNCHANGED <<items, state>>
        /\ UNCHANGED <<curr_list, curr_path>>

NextFs ==
    \/ FsOp(FsRefresh)
    \/ \E prefix \in BucketPrefixes : FsOp(FsBucketRefresh(prefix))
    \/ \E i \in 1..Len(FsOrder), metadata \in {"dir", "file", "none"} :
          FsOp(FsReplace(FsOrder[i], metadata))
    \/ \E i \in 1..Len(FsOrder) : FsOp(FsDelete(i))
    \/ FsOp(HandleDown)
    \/ FsOp(HandleRight)
    \/ FsOp(HandleMark("ToDelete"))

SpecFs == InitFs /\ [][NextFs]_vars

\* ------------------------------------------------------------------ put patches
\* The list patches of put_file at the grain of the locks: tasks whose puts into
\* a pane have returned Ok add their names to the entries of the pane while the UI
\* loop refreshes it.  The left pane adds with ASelectableFilenameList::
\* add_new_element (view/components.rs), the right pane with S3List::
\* add_new_element (view/components/s3_list.rs).
\* put_file of a task, up to the call of add_new_element: the backend has the
\* file, the name is still to be added.
AddStart(p, file_name) ==
    /\ Len(tasks) < MaxAddTasks
    /\ store' = [store EXCEPT ![p] =
                    put_file_store(p, append_path_to_dir(curr_path[p], file_name))]
    /\ tasks' = Append(tasks, [to |-> p, file_name |-> file_name,
                               pc |-> IF p = "LeftList" THEN "check" ELSE "push",
                               is_none |-> TRUE])
    /\ UNCHANGED <<curr_list, items, state, curr_path, err_stack, faults, keys>>
    /\ UNCHANGED aux

\* add_new_element of components.rs: self.get_item_by_filename(file_name).is_none(),
\* the lock on the entries released when the call returns.
AddCheck(t) ==
    /\ tasks[t].pc = "check"
    /\ tasks' = [tasks EXCEPT ![t] =
                    [@ EXCEPT !.pc = "push",
                              !.is_none = ~get_item_by_filename(items[tasks[t].to],
                                                                 tasks[t].file_name)]]
    /\ UNCHANGED <<curr_list, items, state, curr_path, store, err_stack, faults, keys>>
    /\ UNCHANGED aux

\* add_new_element: lock_items().push(..) under the outcome of the test; the
\* add_new_element of S3List and FilesystemList pushes without a test.
AddPush(t) ==
    /\ tasks[t].pc = "push"
    /\ items' = [items EXCEPT ![tasks[t].to] =
                    IF tasks[t].is_none
                    THEN S3List_add_new_element(@, tasks[t].file_name) ELSE @]
    /\ tasks' = [tasks EXCEPT ![t] = [@ EXCEPT !.pc = "done"]]
    /\ UNCHANGED <<curr_list, state, curr_path, store, err_stack, faults, keys>>
    /\ UNCHANGED aux

\* refresh of pane p, the listing Ok.
AddRefresh(p) ==
    /\ keys < MaxAddKeys
    /\ keys' = keys + 1
    /\ items' = [items EXCEPT ![p] = refresh(p)]
    /\ UNCHANGED <<curr_list, state, curr_path, store, err_stack, tasks, faults>>
    /\ UNCHANGED aux

InitAdd ==
    /\ curr_list = "LeftList"
    /\ curr_path = StartPath
    /\ store \in {StoreOf(names) : names \in [Panes -> SUBSET {"f1", "f2"}]}
    /\ items = [p \in Panes |-> list_objects(store[p], curr_path[p])]
    /\ state = [p \in Panes |-> None]
    /\ err_stack = <<>>
    /\ tasks = <<>>
    /\ faults = 0
    /\ keys = 0
    /\ Idle

NextAdd ==
    \/ \E p \in Panes, file_name \in {"f1", "f2"} : AddStart(p, file_name)
    \/ \E t \in 1..Len(tasks) : AddCheck(t)
    \/ \E t \in 1..Len(tasks) : AddPush(t)
    \/ \E p \in Panes : AddRefresh(p)

SpecAdd == InitAdd /\ [][NextAdd]_vars

\* ------------------------------------------------------------------ focus
\* Two panes over buckets of the same content and a user who moves the focus and
\* the cursor, marks, and enters and leaves directories; no task is spawned.
InitFocus ==
    /\ curr_list = "LeftList"
    /\ curr_path = [p \in Panes |-> ""]
    /\ store = [p \in Panes |-> NavStore["LeftList"]]
    /\ items = [p \in Panes |-> list_objects(store[p], curr_path[p])]
    /\ state = [p \in Panes |-> None]
    /\ err_stack = <<>>
    /\ tasks = <<>>
    /\ faults = 0
    /\ keys = 0
    /\ Idle

NextFocus ==
    \/ Key(HandleLeft, MaxFocusKeys, 0)
    \/ Key(HandleRight, MaxFocusKeys, 0)
    \/ Key(HandleDown, MaxFocusKeys, 0)
    \/ Key(HandleUp, MaxFocusKeys, 0)
    \/ \E selection \in Selections : Key(HandleMark(selection), MaxFocusKeys, 0)
    \/ Key(HandleSpace, MaxFocusKeys, 0)
    \/ Key(HandleBackspace, MaxFocusKeys, 0)

SpecFocus == InitFocus /\ [][NextFocus]_vars

\* ------------------------------------------------------------------ sink
\* write_file_from_stream (providers/filesystem.rs): a stream of chunks written
\* through a BufWriter<File>.  file is the writer: the bytes in its buffer
\* and the bytes that have reached the file.

\* BufWriter::write(buf): a chunk that fits is copied into the buffer; otherwise
\* the buffer is flushed first (when the chunk does not fit into what is left of
\* it), and a chunk of at least the capacity goes to File::write directly (which
\* takes all of it, a part of it, or fails), whose result is returned as it is:
\* the number of bytes accepted, or the kind of the error ("" when there is none).
BufWriter_write(writer, chunk, flushed, outcome) ==
    LET spare == Capacity - Len(writer.buf)
        emptied == IF Len(chunk) > spare
                   THEN [buf |-> <<>>, bytes |-> writer.bytes \o writer.buf]
                   ELSE writer
    IN  IF Len(chunk) < spare
        THEN [writer |-> [writer EXCEPT !.buf = @ \o chunk], written |-> Len(chunk), err |-> ""]
        ELSE IF Len(chunk) > spare /\ ~flushed
        THEN [writer |-> writer, written |-> 0, err |-> "WriteZero"]
        ELSE IF Len(chunk) >= Capacity
        THEN CASE outcome = "all" ->
                    [writer |-> [emptied EXCEPT !.bytes = @ \o chunk],
                     written |-> Len(chunk), err |-> ""]
               [] outcome = "short" ->
                    [writer |-> [emptied EXCEPT !.bytes = @ \o SubSeq(chunk, 1, Len(chunk) - 1)],
                     written |-> Len(chunk) - 1, err |-> ""]
               [] OTHER -> [writer |-> emptied, written |-> 0, err |-> outcome]
        ELSE [writer |-> [emptied EXCEPT !.buf = @ \o chunk], written |-> Len(chunk), err |-> ""]

InitSink ==
    /\ curr_list = "LeftList"
    /\ curr_path = StartPath
    /\ store = [p \in Panes |-> {}]
    /\ items = [p \in Panes |-> <<>>]
    /\ state = [p \in Panes |-> None]
    /\ err_stack = <<>>
    /\ tasks = <<>>
    /\ faults = 0
    /\ keys = 0
    /\ owner = <<>>
    /\ threads = <<>>
    \* The chunks a stream may yield: shorter than the buffer of the writer, as
    \* long as it, longer.
    /\ stream \in {[chunks |-> chunks, next |-> 1] :
                      chunks \in UNION {[1..k -> {<<"a">>, <<"b", "c">>, <<"d", "e", "f">>}] :
                                            k \in 0..MaxChunks}}
    /\ file = [buf |-> <<>>, bytes |-> <<>>]
    /\ io_result = "none"

\* One turn of `while let Some(chunk) = stream.next().await`: the chunk is handed
\* to writer.write and the number it returns is dropped; an Interrupted error
\* continues with the next chunk, any other error is returned.
SinkWrite(flushed, outcome) ==
    LET written == BufWriter_write(file, stream.chunks[stream.next], flushed, outcome)
    IN  /\ io_result = "none"
        /\ stream.next <= Len(stream.chunks)
        /\ stream' = [stream EXCEPT !.next = @ + 1]
        /\ file' = written.writer
        /\ io_result' = IF written.err \in {"", "Interrupted"} THEN "none" ELSE "Err"
        /\ UNCHANGED <<curr_list, items, state, curr_path, store, err_stack, tasks,
                     faults, keys, owner, threads>>

\* The stream is exhausted: Ok(()) is returned, and the writer is dropped, which
\* flushes its buffer and ignores an error of that flush.
SinkReturn(flushed) ==
    /\ io_result = "none"
    /\ stream.next > Len(stream.chunks)
    /\ io_result' = "Ok"
    /\ file' = IF flushed THEN [buf |-> <<>>, bytes |-> file.bytes \o file.buf]
               ELSE [file EXCEPT !.buf = <<>>]
    /\ UNCHANGED stream
    /\ UNCHANGED <<curr_list, items, state, curr_path, store, err_stack, tasks,
                 faults, keys, owner, threads>>

NextSink ==
    \/ \E flushed \in BOOLEAN, outcome \in {"all", "short", "Interrupted", "WriteZero"} :
          SinkWrite(flushed, outcome)
    \/ \E flushed \in BOOLEAN : SinkReturn(flushed)

SpecSink == InitSink /\ [][NextSink]_vars

\* ------------------------------------------------------------------ claims
Tasks == 1..Len(tasks)

Ended(t) == tasks[t].pc = "done"

Names(its) == {its[i].file_name : i \in 1..Len(its)}

Count(its, file_name) == Cardinality({i \in 1..Len(its) : its[i].file_name = file_name})

\* The names a refresh of directory path_dir(path) of pane p would list.
Listed(st, path) == Names(list_objects(st, path_dir(path)))

\* C1: in a move task a failed step ends the chain: after a failed open neither
\* put_file nor delete_file is issued, and after a failed put_file no delete_file is
\* issued, so the source file is still in the source store when the task has ended.
C1_FailedStepEndsChain ==
    \A t \in Tasks :
        (tasks[t].op = "move" /\ Ended(t)) =>
            /\ tasks[t].get = "err" => (tasks[t].put = "none" /\ tasks[t].del = "none")
            /\ tasks[t].put = "err" =>
                  (tasks[t].del = "none" /\ tasks[t].from_path \in store[tasks[t].from])

\* C2: in a batch of moves in which exactly one destination put fails and every
\* other backend step succeeds, once all tasks have ended every other file is in
\* the destination store and gone from the source store, and the ErrorStack holds
\* exactly one record.
FailedPuts == {t \in Tasks : tasks[t].put = "err"}

OneFailedPut ==
    /\ tasks # <<>>
    /\ \A t \in Tasks : Ended(t) /\ tasks[t].op = "move"
    /\ Cardinality(FailedPuts) = 1
    /\ \A t \in Tasks :
          /\ tasks[t].get = "ok"
          /\ tasks[t].del = "ok"
          /\ t \notin FailedPuts => tasks[t].put = "ok"

C2_PartialFailureIsolation ==
    OneFailedPut =>
        /\ \A t \in Tasks \ FailedPuts :
              /\ tasks[t].to_path \in store[tasks[t].to]
              /\ tasks[t].from_path \notin store[tasks[t].from]
        /\ Len(err_stack) = 1

C2_Witness ==
    /\ OneFailedPut
    /\ Len(tasks) = 3
    /\ \A t, u \in Tasks : t # u => tasks[t].file_name # tasks[u].file_name
    /\ \A t \in Tasks \ FailedPuts : tasks[t].to_path \in store[tasks[t].to]
    /\ Len(err_stack) = 1

\* C3: when a move task ends with every step Ok, and no task of the destination
\* pane has deleted the same file, the file is gone from the source store and from
\* a refresh of the source directory, it is in the destination store and in a
\* refresh of the destination directory; and with no failed backend call in the
\* whole run the ErrorStack is empty.
NoFailure == faults = 0 /\ \A t \in Tasks : "err" \notin {tasks[t].get, tasks[t].put, tasks[t].del}

AllOk(tk) == tk.get = "ok" /\ tk.put = "ok" /\ tk.del = "ok"

DeletedAtDestination(t) ==
    \E u \in Tasks \ {t} :
        /\ tasks[u].from = tasks[t].to
        /\ tasks[u].from_path = tasks[t].to_path
        /\ tasks[u].del # "none"

C3_MoveHealthy ==
    [][\A t \in Tasks :
          (/\ tasks[t].op = "move" /\ tasks[t].pc = "del" /\ tasks'[t].pc = "done"
           /\ AllOk(tasks'[t])
           /\ ~DeletedAtDestination(t))
          => /\ tasks[t].from_path \notin store'[tasks[t].from]
             /\ tasks[t].file_name \notin Listed(store'[tasks[t].from], tasks[t].from_path)
             /\ tasks[t].to_path \in store'[tasks[t].to]
             /\ tasks[t].file_name \in Listed(store'[tasks[t].to], tasks[t].to_path)
             /\ NoFailure' => err_stack' = <<>>]_vars

C3_Witness ==
    \E t \in Tasks :
        /\ tasks[t].op = "move" /\ Ended(t) /\ AllOk(tasks[t])
        /\ tasks[t].from = "LeftList"
        /\ tasks[t].from_path \notin store[tasks[t].from]
        /\ tasks[t].to_path \in store[tasks[t].to]
        /\ NoFailure /\ err_stack = <<>>

\* C4: a copy task never issues delete_file; when it ends with open and put Ok, and
\* no other task has deleted the source file meanwhile, the file is in both stores
\* and the source entry is still listed in the source pane.
DeletedAtSource(t) ==
    \E u \in Tasks \ {t} :
        /\ tasks[u].from = tasks[t].from
        /\ tasks[u].file_name = tasks[t].file_name
        /\ tasks[u].del # "none"

C4_StepKeepsSource(t) ==
    (/\ tasks[t].op = "copy" /\ tasks[t].pc = "put" /\ tasks'[t].pc = "done"
     /\ tasks'[t].put = "ok"
     /\ ~DeletedAtSource(t))
    => /\ tasks[t].to_path \in store'[tasks[t].to]
       /\ tasks[t].from_path \in store'[tasks[t].from]
       /\ tasks[t].file_name \in Names(items'[tasks[t].from])

C4_CopyOmitsDelete ==
    [][/\ \A t \in Tasks : C4_StepKeepsSource(t)
       /\ \A t \in 1..Len(tasks') : tasks'[t].op = "copy" => tasks'[t].del = "none"]_vars

C4_Witness ==
    \E t \in Tasks :
        /\ tasks[t].op = "copy" /\ Ended(t)
        /\ tasks[t].get = "ok" /\ tasks[t].put = "ok" /\ tasks[t].del = "none"
        /\ tasks[t].to_path \in store[tasks[t].to]
        /\ tasks[t].from_path \in store[tasks[t].from]
        /\ tasks[t].file_name \in Names(items[tasks[t].from])

\* C5: once a move, copy or delete task for name n of pane p has ended, the entry
\* n, if still listed in p, is not in state Processing.
C5_ProcessingCleared ==
    \A t \in Tasks :
        Ended(t) =>
            \A i \in 1..Len(items[tasks[t].from]) :
                items[tasks[t].from][i].file_name = tasks[t].file_name
                    => items[tasks[t].from][i].state # "Proccessed"

\* C6: for every pane p and file name n at most one task is between its first and
\* its last backend call on n in p.
InFlight(t) ==
    /\ ~Ended(t)
    /\ \/ tasks[t].get # "none"
       \/ tasks[t].op = "delete" /\ tasks[t].pc = "del"

C6_OneOperationPerEntry ==
    \A t, u \in Tasks :
        (/\ t # u
         /\ tasks[t].from = tasks[u].from
         /\ tasks[t].file_name = tasks[u].file_name)
        => ~(InFlight(t) /\ InFlight(u))

\* C7: Enter with a non-empty ErrorStack only acknowledges: the ErrorStack becomes
\* empty, no task is spawned, and entries, selection states, cursors and locations
\* of both panes are unchanged; tasks are spawned only by an Enter pressed with an
\* empty ErrorStack.
C7_EnterAcknowledges ==
    [][/\ (HandleEnter /\ err_stack # <<>>) =>
              /\ err_stack' = <<>>
              /\ UNCHANGED <<tasks, items, state, curr_path, curr_list>>
       /\ Len(tasks') > Len(tasks) => (HandleEnter /\ err_stack = <<>>)]_vars

Failed == faults > 0 \/ \E t \in Tasks : "err" \in {tasks[t].get, tasks[t].put, tasks[t].del}

C7_Witness == Failed /\ err_stack = <<>> /\ tasks # <<>>

\* C8: an Enter pressed with an empty ErrorStack refreshes both panes before the
\* next input event: when the handler returns, each pane lists what its store
\* holds at its location, every entry Unselected, or a failed listing is recorded.
C8_EnterRefreshes ==
    [][(HandleEnter /\ err_stack = <<>>) =>
           \A p \in Panes :
               \/ items'[p] = list_objects(store'[p], curr_path'[p])
               \/ \E i \in 1..Len(err_stack') :
                      err_stack'[i].component = p /\ err_stack'[i].op = "list"]_vars

\* C9: Enter with an empty ErrorStack spawns exactly one task per selected entry:
\* a move task per ToMove entry, a copy task per ToCopy entry and a delete task per
\* ToDelete entry of each pane, each not yet started and aimed at the other pane,
\* and no other task.
Selection(op) == CASE op = "move" -> "ToMove" [] op = "copy" -> "ToCopy" [] op = "delete" -> "ToDelete"

Spawned == (Len(tasks) + 1)..Len(tasks')

Marked(p, file_name, op) ==
    {i \in 1..Len(items[p]) :
        items[p][i].file_name = file_name /\ items[p][i].state = Selection(op)}

C9_OneTaskPerSelected ==
    [][(HandleEnter /\ err_stack = <<>>) =>
          /\ SubSeq(tasks', 1, Len(tasks)) = tasks
          /\ \A p \in Panes, n \in FileNames, op \in {"move", "copy", "delete"} :
                Cardinality({k \in Spawned : /\ tasks'[k].op = op
                                             /\ tasks'[k].from = p
                                             /\ tasks'[k].file_name = n})
                    = Cardinality(Marked(p, n, op))
          /\ \A k \in Spawned :
                /\ tasks'[k].pc \in {"open", "start"}
                /\ tasks'[k].get = "none" /\ tasks'[k].put = "none" /\ tasks'[k].del = "none"
                /\ tasks'[k].op # "delete" => tasks'[k].to = Other(tasks'[k].from)]_vars

C9_Witness ==
    /\ Len(tasks) = 2
    /\ \A t \in Tasks : tasks[t].pc \in {"open", "start"}
    /\ tasks[1].from # tasks[2].from
    /\ \E p \in Panes : \E i \in 1..Len(items[p]) : items[p][i].state = "Unselected"

\* C10: when the delete_file of a delete task succeeds, the file is gone from the
\* store, one entry of that name is removed from the pane's list, the other entries
\* are kept, and no ErrorRecord is pushed; when it fails, exactly one ErrorRecord
\* is pushed and the pane's entries and cursor are unchanged.
Others(its, file_name) == SelectSeq(its, LAMBDA e : e.file_name # file_name)

C10_DeleteStep(t) ==
    LET tk == tasks[t]
    IN  (tk.op = "delete" /\ tk.pc = "del" /\ tasks'[t].pc = "done") =>
            IF tasks'[t].del = "ok"
            THEN /\ tk.from_path \notin store'[tk.from]
                 /\ Others(items'[tk.from], tk.file_name) = Others(items[tk.from], tk.file_name)
                 /\ Count(items[tk.from], tk.file_name) > 0 =>
                        Count(items'[tk.from], tk.file_name)
                            = Count(items[tk.from], tk.file_name) - 1
                 /\ err_stack' = err_stack
            ELSE /\ Len(err_stack') = Len(err_stack) + 1
                 /\ SubSeq(err_stack', 1, Len(err_stack)) = err_stack
                 /\ err_stack'[Len(err_stack')].component = tk.from
                 /\ UNCHANGED <<items, state, store>>

C10_DeleteBatch == [][\A t \in Tasks : C10_DeleteStep(t)]_vars

C10_Witness ==
    \E t \in Tasks :
        /\ tasks[t].op = "delete" /\ Ended(t) /\ tasks[t].del = "ok"
        /\ tasks[t].from_path \notin store[tasks[t].from]
        /\ tasks[t].file_name \notin Names(items[tasks[t].from])
        /\ items[tasks[t].from] # <<>>
        /\ err_stack = <<>> /\ ~Failed

\* C11: toggle is an involution: for every entry and every selection s, toggling
\* an Unselected entry with s gives s and toggling it again gives Unselected,
\* toggling an entry in any other state gives Unselected; select(Proccessed) gives
\* Proccessed from every state and is idempotent.  The same toggle law holds of
\* ListOption::select on the states it has.
Entries == UNION {{items[p][i] : i \in 1..Len(items[p])} : p \in Panes}

DirectoriesUnselected ==
    \A e \in Entries : e.kind = "Directory" => e.state = "Unselected"

OnDirectory(p) ==
    /\ state[p] # None
    /\ state[p][1] < Len(items[p])
    /\ items[p][state[p][1] + 1].kind = "Directory"

C12_DirectoryUnselected ==
    [][/\ DirectoriesUnselected'
       /\ \A selection \in Selections :
             (HandleMark(selection) /\ OnDirectory(curr_list)) => UNCHANGED items]_vars

C12_Witness ==
    /\ OnDirectory(curr_list)
    /\ \E i \in 1..Len(items[curr_list]) : items[curr_list][i].state = "Proccessed"
    /\ DirectoriesUnselected

\* C13: a mark key toggles the entry under the cursor wherever the cursor is: for
\* every list component, every selection and every valid cursor index, index 0
\* included, an Unselected File entry under the cursor holds the requested state
\* after select.
UnderCursor(p) == items[p][state[p][1] + 1]

C13_MarkAtEveryIndex ==
    [][\A p \in Panes, selection \in Selections :
          (/\ ListSelect(p, selection)
           /\ state[p] # None
           /\ state[p][1] < Len(items[p])
           /\ UnderCursor(p).kind = "File"
           /\ UnderCursor(p).state = "Unselected")
          => items'[p][state[p][1] + 1].state = selection]_vars

\* C14: get_selected(state) returns exactly the names of the entries that hold
\* that state, each once and in the order of the entry list: its k-th element is
\* the name of the k-th entry holding the state, and it has as many elements as
\* there are such entries.
States == Selections \cup {"Unselected", "Proccessed"}

Holding(its, st) == {i \in 1..Len(its) : its[i].state = st}

\* The index of the k-th entry of its that holds st.
KthHolding(its, st, k) ==
    CHOOSE i \in Holding(its, st) :
        Cardinality({j \in Holding(its, st) : j <= i}) = k

C14_GetSelectedExact ==
    \A p \in Panes, st \in States :
        LET r == get_selected(items[p], st)
        IN  /\ Len(r) = Cardinality(Holding(items[p], st))
            /\ \A k \in 1..Len(r) : r[k] = items[p][KthHolding(items[p], st, k)].file_name

C14_Witness ==
    \E p \in Panes :
        /\ get_selected(items[p], "ToCopy") = <<"f2">>
        /\ get_selected(items[p], "ToMove") = <<"f1">>
        /\ Len(items[p]) >= 2

\* C15: cursor wraparound: on a non-empty list of length len, from every cursor
\* index below len, next() applied len times returns the cursor to that index, and
\* so does previous() applied len times; on an empty list next() and previous()
\* leave the cursor as it is.
RECURSIVE next_times(_, _, _)
next_times(its, st, n) ==
    IF n = 0 THEN st ELSE next_times(its, next(its, st), n - 1)

RECURSIVE previous_times(_, _, _)
previous_times(its, st, n) ==
    IF n = 0 THEN st ELSE previous_times(its, previous(its, st), n - 1)

ValidCursor(p) == state[p] # None /\ state[p][1] < Len(items[p])

C15_CursorWraparound ==
    \A p \in Panes :
        /\ ValidCursor(p) =>
              /\ next_times(items[p], state[p], Len(items[p])) = state[p]
              /\ previous_times(items[p], state[p], Len(items[p])) = state[p]
        /\ items[p] = <<>> =>
              /\ next(items[p], state[p]) = state[p]
              /\ previous(items[p], state[p]) = state[p]

C15_Witness ==
    /\ Len(items["LeftList"]) = 3 /\ state["LeftList"] = Some(2)
    /\ items["RightList"] = <<>> /\ state["RightList"] = None

\* C16: cursor validity: in every reachable state the cursor of each pane is none
\* or an index strictly less than the number of entries of the pane.
C16_CursorValid ==
    \A p \in Panes : state[p] = None \/ state[p][1] < Len(items[p])

\* C17: removing an entry by name keeps the cursor on the same entry: when the
\* removed entry (the first of that name) is below the cursor the cursor goes down
\* by one and still points at the entry it pointed at, when it is the entry at the
\* cursor the cursor becomes none, when it is above the cursor or the name is not
\* listed the cursor is unchanged.
C17_Removal(p, file_name) ==
    LET its == items[p]
        found == {i \in 1..Len(its) : its[i].file_name = file_name}
        removed == (CHOOSE i \in found : \A j \in found : i <= j) - 1
        cursor == state[p]
    IN  IF found = {}
        THEN state'[p] = cursor /\ items'[p] = its
        ELSE /\ Len(items'[p]) = Len(its) - 1
             /\ cursor = None => state'[p] = None
             /\ (cursor # None /\ removed < cursor[1]) =>
                    /\ state'[p] = Some(cursor[1] - 1)
                    /\ cursor[1] < Len(its) => items'[p][cursor[1]] = its[cursor[1] + 1]
             /\ (cursor # None /\ removed = cursor[1]) => state'[p] = None
             /\ (cursor # None /\ removed > cursor[1]) =>
                    /\ state'[p] = cursor
                    /\ items'[p][cursor[1] + 1] = its[cursor[1] + 1]

C17_RemoveKeepsCursor ==
    [][\A p \in Panes, file_name \in FileNames :
          ListRemove(p, file_name) => C17_Removal(p, file_name)]_vars

C17_Witness ==
    /\ state["LeftList"] = None
    /\ \E i \in 1..Len(items["LeftList"]) : items["LeftList"][i].state \in Selections

\* C18: refresh is non-destructive on error: when the listing of a pane fails
\* during refresh_lists, the error is recorded and the entries of that pane, their
\* selection states, its cursor and its location are exactly as before.
ListFailed(p) ==
    \E i \in (Len(err_stack) + 1)..Len(err_stack') :
        err_stack'[i].op = "list" /\ err_stack'[i].component = p

C18_RefreshNonDestructive ==
    [][\A p \in Panes :
          (HandleRefresh /\ ListFailed(p)) =>
              /\ items'[p] = items[p]
              /\ state'[p] = state[p]
              /\ curr_path'[p] = curr_path[p]
              /\ store' = store]_vars

C18_Witness ==
    \E p \in Panes :
        /\ \E i \in 1..Len(err_stack) :
              err_stack[i].op = "list" /\ err_stack[i].component = p
        /\ \E i \in 1..Len(items[p]) : items[p][i].state \in Selections
        /\ state[p] # None

\* C19: navigate-into rollback: when Space is handled and the refresh that follows
\* fails, the location of the focused pane after the event is its location before
\* the event, whatever the cursor (none and a cursor on a file included), and
\* exactly one ErrorRecord is pushed.
C19_NavigateIntoRollback ==
    [][(HandleSpace /\ ListFailed(curr_list)) =>
           /\ curr_path'[curr_list] = curr_path[curr_list]
           /\ Len(err_stack') = Len(err_stack) + 1]_vars

\* C20: navigate-out rollback: when Backspace is handled and the refresh that
\* follows fails, the location of the focused pane after the event is its location
\* before the event, whatever the cursor and the entries, and exactly one
\* ErrorRecord is pushed.
C20_NavigateOutRollback ==
    [][(HandleBackspace /\ ListFailed(curr_list)) =>
           /\ Len(err_stack') = Len(err_stack) + 1
           /\ curr_path'[curr_list] = curr_path[curr_list]]_vars

\* C21: object-store navigation round trip: from every prefix, the root and every
\* nesting depth included, move_into_selected_dir with the cursor on a directory
\* entry followed at once by move_out_of_selected_dir gives the prefix back.
C21_RoundTrip ==
    \A p \in Panes :
        OnDirectory(p) =>
            navigate_out(p, navigate_into(p, curr_path[p], items[p], state[p]))
                = curr_path[p]

\* C22: navigation no-ops: move_into_selected_dir leaves the prefix as it is when
\* there is no cursor or the name under the cursor does not end in the delimiter,
\* and move_out_of_selected_dir leaves it as it is at the root (the empty prefix).
NotOnDirectory(p) ==
    \/ state[p] = None
    \/ ValidCursor(p) /\ LastChar(UnderCursor(p).file_name) # "/"

TruncatedPrefix(prefix) ==
    LET before == {i \in SlashIndices(prefix) : i < Len(prefix)}
    IN  IF before = {} THEN ""
        ELSE SubSeq(prefix, 1, CHOOSE i \in before : \A j \in before : j <= i)

C23_NavigateOutTruncates ==
    \A p \in Panes :
        curr_path[p] # "" =>
            LET r == navigate_out(p, curr_path[p])
            IN  /\ r = TruncatedPrefix(curr_path[p])
                /\ Len(r) < Len(curr_path[p])
                /\ SubSeq(curr_path[p], 1, Len(r)) = r
                /\ r = "" \/ LastChar(r) = "/"

C23_Witness ==
    /\ curr_path["RightList"] = "d/d/"
    /\ curr_path["LeftList"] = "d"

\* C24: object-store listing filter: of the keys returned for the requested prefix
\* P, a key is kept iff its suffix (the key without P) is non-empty and holds no
\* delimiter or exactly one delimiter that is its last character; a kept entry is
\* a Directory iff its suffix ends in the delimiter, else a File; its name is the
\* suffix.
Suffix(key, prefix) == SubSeq(key, Len(prefix) + 1, Len(key))

TopLevel(suffix) ==
    /\ suffix # ""
    /\ \/ SlashIndices(suffix) = {}
       \/ SlashIndices(suffix) = {Len(suffix)}

Retained(bucket, prefix) ==
    LET kept == SelectSeq(list_objects_v2(bucket, prefix), LAMBDA key :
                    TopLevel(Suffix(key, prefix)))
    IN  [i \in 1..Len(kept) |->
            [file_name |-> Suffix(kept[i], prefix),
             kind |-> IF SubSeq(kept[i], Len(kept[i]), Len(kept[i])) = "/"
                      THEN "Directory" ELSE "File",
             state |-> "Unselected"]]

C24_ListingFilter ==
    [][\A prefix \in BucketPrefixes :
          BucketList(prefix) =>
              items'["LeftList"] = Retained(store["LeftList"], RequestPrefix(prefix))]_vars

C24_Witness ==
    /\ curr_path["LeftList"] = "a"
    /\ {"a/", "a/b.txt", "a/c/", "a/c/d.txt"} \subseteq store["LeftList"]
    /\ items["LeftList"] = <<NewEntry("b.txt", "File"), NewEntry("c/", "Directory")>>

\* C25: object-store listing is prefix-correct and idempotent: over a bucket that
\* holds exactly the keys a/b.txt, a/c/d.txt and a/e.txt, listing the prefix a/
\* gives exactly b.txt (File), c/ (Directory) and e.txt (File), and listing it
\* again with the bucket unchanged gives the same.
C25Keys == {"a/b.txt", "a/c/d.txt", "a/e.txt"}

C25Listing ==
    <<NewEntry("b.txt", "File"), NewEntry("c/", "Directory"), NewEntry("e.txt", "File")>>

C25_ListingPrefixCorrect ==
    [][\A prefix \in {"a", "a/"} :
          (BucketList(prefix) /\ store["LeftList"] = C25Keys) =>
              /\ items'["LeftList"] = C25Listing
              /\ (curr_path["LeftList"] = prefix /\ items["LeftList"] = C25Listing)
                    => items'["LeftList"] = items["LeftList"]]_vars

\* C26: put patch: when the put_file of a task succeeds and the destination pane
\* shows the directory the file was written to, the destination list has an entry
\* of that name afterwards: one Unselected File entry is appended when the name was
\* not listed, and the entries that were listed are kept as they were; when the
\* destination pane shows another directory (it navigated after the task was
\* spawned), its list is not changed by the put.
PutOk(t) ==
    /\ tasks[t].pc = "put"
    /\ tasks'[t].pc # "put"
    /\ tasks'[t].put = "ok"

C26_PutStep(t) ==
    LET tk == tasks[t]
    IN  PutOk(t) =>
            /\ tk.to_path \in store'[tk.to]
            /\ IF curr_path[tk.to] = path_dir(tk.to_path)
               THEN IF tk.file_name \in Names(items[tk.to])
                    THEN items'[tk.to] = items[tk.to]
                    ELSE items'[tk.to] = Append(items[tk.to], NewEntry(tk.file_name, "File"))
               ELSE items'[tk.to] = items[tk.to]

Appends ==
    /\ Len(err_stack') >= Len(err_stack)
    /\ SubSeq(err_stack', 1, Len(err_stack)) = err_stack

C27_ErrorStackAppendOnly ==
    [][/\ Appends \/ (HandleEnter /\ err_stack # <<>> /\ err_stack' = <<>>)
       /\ keys' = keys => Appends]_vars

C27_Witness ==
    /\ err_stack = <<>>
    /\ faults > 0
    /\ \E t \in Tasks : Ended(t)

\* C28: no error is silently dropped: every failing backend step of a task (the
\* open of the source stream, the put, the delete) and every failing listing of an
\* event handler appends an ErrorRecord to the ErrorStack in the same step.
FailsAt(t, step) == tasks[t][step] = "none" /\ tasks'[t][step] = "err"

C28_NoErrorDropped ==
    [][/\ \A t \in Tasks : \A step \in {"get", "put", "del"} :
              FailsAt(t, step) =>
                  /\ Len(err_stack') = Len(err_stack) + 1
                  /\ SubSeq(err_stack', 1, Len(err_stack)) = err_stack
       /\ (HandleRefresh /\ faults' > faults) =>
              Len(err_stack') = Len(err_stack) + (faults' - faults)]_vars

\* C29: the loop always remains interactive: in no reachable state does the
\* handling of the next key event abort; in particular Space, which reads the
\* name of the entry under the cursor of the focused pane, never finds the cursor
\* past the last entry.
C29_LoopStaysInteractive == ~move_into_panics(items[curr_list], state[curr_list])

\* C30: a failed file is surfaced once: a move, copy or delete task appends at
\* most one ErrorRecord to the ErrorStack, whatever combination of its steps fails:
\* a step of a task appends at most one record, and none when an earlier step of
\* that task has failed.
FailedBefore(t) == "err" \in {tasks[t].get, tasks[t].put, tasks[t].del}

C30_SurfacedOnce ==
    [][\A t \in Tasks :
          (tasks'[t] # tasks[t] /\ Len(err_stack') > Len(err_stack)) =>
              /\ Len(err_stack') = Len(err_stack) + 1
              /\ ~FailedBefore(t)]_vars

\* C31: no lock-ordering hazard.  In every interleaving of the UI loop and the
\* tasks no set of threads waits on mutexes held inside the set (so nobody waits
\* forever); a task never holds a lock of one pane while it takes a lock of the
\* other pane; no thread takes the entry-list lock of a pane while it holds the
\* cursor lock of that pane; no thread takes a lock it holds.
Wants(th) == Head(threads[th])[2]

Acquiring(th) == threads[th] # <<>> /\ Head(threads[th])[1] \in {"lock", "touch"}

Blocked(th) == Acquiring(th) /\ owner[Wants(th)] # "free"

WaitCycle ==
    \E waiting \in SUBSET Threads \ {{}} :
        \A th \in waiting : Blocked(th) /\ owner[Wants(th)] \in waiting

C31_NoLockHazard ==
    /\ ~WaitCycle
    /\ \A th \in Workers, p \in Panes :
          (Acquiring(th) /\ Wants(th)[1] = p) =>
              \A m \in Held(th) : m[1] # Other(p)
    /\ \A th \in Threads, p \in Panes :
          (Acquiring(th) /\ Wants(th) = ItemsMutex(p)) => StateMutex(p) \notin Held(th)
    /\ \A th \in Threads : Acquiring(th) => Wants(th) \notin Held(th)

\* A worker inside remove_element_of_filename holds both locks of a pane while the
\* UI loop waits for the entries of that pane.
C31_Witness ==
    \E th \in Workers, p \in Panes :
        /\ Held(th) = {ItemsMutex(p), StateMutex(p)}
        /\ Blocked(UiLoop)
        /\ Wants(UiLoop) = ItemsMutex(p)

\* C32: every spawned task ends.  With every backend call returning, a task that
\* has been spawned reaches the end of its body whatever keys are handled
\* meanwhile, and until then no step removes it, replaces it or moves it back to
\* an earlier call.
Position(pc) ==
    CASE pc = "start" -> 0 [] pc = "open" -> 1 [] pc = "put" -> 2
      [] pc = "del" -> 3 [] pc = "done" -> 4

NotRestarted(t) ==
    /\ t <= Len(tasks')
    /\ \A field \in {"op", "from", "to", "file_name", "from_path", "to_path"} :
          tasks'[t][field] = tasks[t][field]
    /\ Position(tasks'[t].pc) >= Position(tasks[t].pc)

KindAgrees(e) == (LastChar(e.file_name) = "/") <=> (e.kind = "Directory")

KindOfMetadata(metadata) ==
    CASE metadata = "dir" -> "Directory" [] metadata = "file" -> "File"
      [] metadata = "none" -> "Unknown"

Refreshed(p) ==
    IF p = "LeftList" THEN FsOp(FsRefresh)
    ELSE \E prefix \in BucketPrefixes : FsOp(FsBucketRefresh(prefix))

C33_Refresh(p) ==
    Refreshed(p) =>
        /\ \A i \in 1..Len(items'[p]) :
              /\ KindAgrees(items'[p][i])
              /\ IF p = "LeftList"
                 THEN \E e \in store[p] :
                        /\ e[1] = curr_path[p]
                        /\ FsName(items'[p][i].file_name) = e[2]
                        /\ items'[p][i].kind = KindOfMetadata(e[3])
                 ELSE items'[p][i].kind \in {"File", "Directory"}
        /\ p = "LeftList" =>
              Len(items'[p]) = Cardinality({e \in store[p] : e[1] = curr_path[p]})

C33_KindAndName ==
    [][/\ \A p \in Panes : C33_Refresh(p)
       /\ \A p \in Panes : \A i \in 1..Len(items'[p]) :
             items'[p][i].kind # "File" => items'[p][i].state = "Unselected"]_vars

\* A listing of the directory shows a directory, a file and an entry of unknown
\* kind, the cursor on the unknown one, and a file of the list is marked.
C33_Witness ==
    LET its == items["LeftList"]
    IN  /\ {its[i].kind : i \in 1..Len(its)} = {"Directory", "File", "Unknown"}
        /\ state["LeftList"] # None
        /\ state["LeftList"][1] < Len(its)
        /\ its[state["LeftList"][1] + 1].kind = "Unknown"
        /\ \E i \in 1..Len(its) : its[i].state = "ToDelete"
        /\ \E i \in 1..Len(items["RightList"]) : items["RightList"][i].kind = "Directory"

\* C34: deleting a directory through the filesystem backend is rejected.  When
\* delete_file is called on a path that is a directory, an Unsupported error is
\* returned (and pushed by the task), the directory stays in the filesystem, and
\* the entries and the cursor of the pane are unchanged.
C34_Delete(i) ==
    LET p == "LeftList"
        path == append_path_to_dir(curr_path[p], items[p][i].file_name)
    IN  (FsOp(FsDelete(i)) /\ fs_metadata(store[p], path) = "dir") =>
            /\ err_stack' =
                  Append(err_stack, FilesystemList_handle_error("Unsupported", path))
            /\ store'[p] = store[p]
            /\ items'[p] = items[p]
            /\ state'[p] = state[p]

C34_DirectoryDeleteRejected == [][\A i \in 1..Len(items["LeftList"]) : C34_Delete(i)]_vars

\* A delete of a name that was listed (and marked) as a file and has become a
\* directory since was rejected, the cursor on a later entry.
C34_Witness ==
    LET its == items["LeftList"]
    IN  /\ \E k \in 1..Len(err_stack) :
              /\ err_stack[k].code = "Unsupported"
              /\ \E i \in 1..Len(its) :
                    /\ append_path_to_dir(curr_path["LeftList"], its[i].file_name)
                          = err_stack[k].file
                    /\ its[i].kind = "File"
        /\ state["LeftList"] # None

\* C35: entry names are unique within the list of a pane in every reachable
\* state, whatever refreshes and put patches are interleaved.
C35_NamesUnique ==
    \A p \in Panes : \A i, j \in 1..Len(items[p]) :
        i # j => items[p][i].file_name # items[p][j].file_name

\* C36: the Processing marker covers the whole operation.  From the step in which
\* a task marks its entry until the task ends, the entry of that name in the
\* source pane (while the pane is at the location the task was spawned for) is
\* in state Proccessed, whatever keys the UI loop handles meanwhile.
Marking(t) ==
    /\ ~Ended(t)
    /\ \/ tasks[t].get = "ok"
       \/ tasks[t].op = "delete" /\ tasks[t].pc = "del"
    /\ curr_path[tasks[t].from] = path_dir(tasks[t].from_path)

C36_ProcessingCovers ==
    \A t \in Tasks :
        Marking(t) =>
            \A i \in 1..Len(items[tasks[t].from]) :
                items[tasks[t].from][i].file_name = tasks[t].file_name
                    => items[tasks[t].from][i].state = "Proccessed"

\* C37: a delete patch only touches the listing it belongs to.  When the
\* delete_file of a task returns Ok while the source pane is at another location
\* than the one the task was spawned for, the entries and the cursor of the pane
\* stay as they are.
C37_DeleteStep(t) ==
    LET tk == tasks[t]
    IN  (/\ tk.del = "none" /\ tasks'[t].del = "ok"
         /\ curr_path[tk.from] # path_dir(tk.from_path)) =>
            /\ items'[tk.from] = items[tk.from]
            /\ state'[tk.from] = state[tk.from]

C37_DeletePatchLocal == [][\A t \in Tasks : C37_DeleteStep(t)]_vars

\* C38: input affects only the focused pane.  Left and Right set the focus and
\* change nothing else; the directional, mark, Space and Backspace keys keep the
\* focus and leave the entries, selection states, cursor and location of the
\* other pane alone; the ErrorStack changes only when a listing failed, and then
\* by one record of the focused pane.
PaneOf(p) == <<items[p], state[p], curr_path[p]>>

PaneKept(p) == <<items'[p], state'[p], curr_path'[p]>> = PaneOf(p)

C38_FocusedPaneOnly ==
    [][/\ PaneKept(Other(curr_list))
       /\ HandleLeft => curr_list' = "LeftList"
       /\ HandleRight => curr_list' = "RightList"
       /\ (HandleLeft \/ HandleRight) => PaneKept(curr_list) /\ err_stack' = err_stack
       /\ ~(HandleLeft \/ HandleRight) => curr_list' = curr_list
       /\ err_stack' # err_stack =>
             /\ faults' = faults + 1
             /\ Len(err_stack') = Len(err_stack) + 1
             /\ err_stack'[Len(err_stack')].component = curr_list
       /\ store' = store /\ tasks' = tasks]_vars

\* The focus is on the right pane, which has entered d/ and has its cursor on an
\* entry, while the left pane still shows its root with a marked file.
C38_Witness ==
    /\ curr_list = "RightList"
    /\ curr_path = [p \in Panes |-> IF p = "RightList" THEN "d" ELSE ""]
    /\ state["RightList"] # None
    /\ state["LeftList"] # None
    /\ \E i \in 1..Len(items["LeftList"]) : items["LeftList"][i].state = "ToMove"

\* C39: the filesystem sink consumes the stream without loss.  When
\* write_file_from_stream has returned Ok, the bytes of the file are the chunks of
\* the stream, all of them, in order.
RECURSIVE Concat(_)
Concat(chunks) == IF chunks = <<>> THEN <<>> ELSE Head(chunks) \o Concat(Tail(chunks))

C39_SinkLossless == io_result = "Ok" => file.bytes = Concat(stream.chunks)

====
